---- MODULE Spec2Model ----
(***************************************************************************)
(* Telegram -> Chatwoot bridge: the inbound forwarder (forwardToCharwoot), *)
(* the Directory Client's createContact / updateContact / createMessage    *)
(* and the Conversation Resolver (ChatwootAPI.createConversation), run by  *)
(* concurrent message handlers against one remote support desk.            *)
(*                                                                         *)
(* Every remote call is one action: the request, the remote's answer (or a *)
(* fault) and the handler's code up to its next await.                     *)
(***************************************************************************)
EXTENDS Naturals, Sequences, FiniteSets, TLC

(* ------------------------------ bounds -------------------------------- *)

\* messages delivered by the chat transport in one run; handler i runs message i
MaxMsgs == 2
\* distinct telegram senders
NumSenders == 2
\* remote calls that end in a fault (timeout or non-2xx other than a conflict)
MaxFaults == 2
\* conversations per page of the remote's list answers
PageSize == 1
\* webhook events the support desk posts in one run; run k handles event k
MaxEvents == 2
\* Failure Records written in one run
MaxRecords == 3
\* milliseconds the wall clock advances in one run
MaxClock == 2
\* consumers replaying Failure Records at the same time
NumConsumers == 2
\* requests to the direct-send endpoint in one run
MaxCalls == 2
\* object ids a success answer of the remote can carry
MaxAnswerId == 2
\* runs of ChatwootAPI.request in one run
MaxRequests == 2

(* ------------------------- program constants -------------------------- *)

\* for (let page = 1; page <= 5; page++)
MaxPages == 5
\* process.env.CHATWOOT_INBOX_ID || "1"
InboxId == 1

Senders == 1..NumSenders
Handlers == 1..MaxMsgs
Hooks == 1..MaxEvents
Calls == 1..MaxCalls
Requests == 1..MaxRequests

(* ------------------------------ strings ------------------------------- *)
\* A string is a sequence of tokens; the empty sequence is the empty string,
\* which JavaScript's || treats like undefined.
NoStr == <<>>

Or(a, b) == IF a # NoStr THEN a ELSE b
OrId(a, b) == IF a # 0 THEN a ELSE b

\* sender?.id?.toString()
SenderIdStr(s) == <<ToString(s)>>

\* `telegram_${senderId}`
IdentityKey(s) == <<"telegram_">> \o SenderIdStr(s)

\* str.startsWith("+")
StartsWithPlus(str) == str # NoStr /\ Head(str) = "+"

\* [firstName, lastName].filter(Boolean).join(" ").trim() || username || "Telegram User"
FullName(p) ==
  LET parts == SelectSeq(<<p.firstName, p.lastName>>, LAMBDA x : x # NoStr)
      joined == IF Len(parts) = 0 THEN NoStr
                ELSE IF Len(parts) = 1 THEN parts[1]
                ELSE parts[1] \o <<" ">> \o parts[2]
  IN Or(Or(joined, p.username), <<"Telegram User">>)

\* the live telegram profiles a sender's message can carry
Profiles ==
  { [firstName |-> <<"John">>, lastName |-> NoStr, username |-> NoStr,
     phone |-> <<"+", "15551234567">>],
    [firstName |-> <<"John">>, lastName |-> <<"Doe">>, username |-> NoStr,
     phone |-> <<"+", "15551234567">>] }

NoProfile == [firstName |-> NoStr, lastName |-> NoStr, username |-> NoStr, phone |-> NoStr]

Texts == { <<"Hello">> }

(* ------------------------------ errors -------------------------------- *)
\* request(): a non-2xx answer throws an Error carrying status and data
\* ("rejected"); an aborted fetch throws without status ("timeout").
NoErr == [kind |-> "none", status |-> 0, about |-> "none"]
TimeoutErr == [kind |-> "timeout", status |-> 0, about |-> "none"]
RejectedErr(st, what) == [kind |-> "rejected", status |-> st, about |-> what]
\* the remote's write-time uniqueness rejections
SourceConflict == RejectedErr(422, "source_id")
IdentifierConflict == RejectedErr(422, "identifier")
\* thrown by the forwarder itself
NoIdErr == [kind |-> "no_id", status |-> 0, about |-> "none"]

\* faults a remote call can end in: the abort at the timeout, an
\* authentication rejection
Faults == { TimeoutErr, RejectedErr(401, "none") }

\* a createContact that would take only a 409 for a duplicate
MessageIncludes409(e) == e.kind = "rejected" /\ e.status = 409

\* error.message?.includes("409") || error.message?.includes("422"), the message
\* being `Chatwoot API error: ${status} ${statusText}`
MessageIncludesConflictStatus(e) == e.kind = "rejected" /\ e.status \in {409, 422}

\* a check that would take every 422 for a source-tag conflict
IsAny422(e) == e.status = 422

\* createErr.status === 422 && (errorData.error / errorData.message includes "source_id")
IsSourceIdConflict(e) == e.status = 422 /\ e.about = "source_id"

(* --------------------------- remote versions -------------------------- *)
\* Which fields of a conversation a remote deployment renders in its list
\* and detail answers, which wrapper its list answers use and whether it
\* honours the contact_id filter.
TagFields == {"source_id", "contact_inbox", "additional_attributes", "meta_sender"}

ApiVersions ==
  { [list |-> {"source_id", "additional_attributes"}, detail |-> {"source_id", "additional_attributes"},
     contactField |-> "meta_sender", wrapper |-> "data.payload", contactFilter |-> TRUE],
    [list |-> {}, detail |-> {"contact_inbox"},
     contactField |-> "contact_id", wrapper |-> "payload", contactFilter |-> FALSE],
    [list |-> {"meta_sender"}, detail |-> {"meta_sender"},
     contactField |-> "contact", wrapper |-> "array", contactFilter |-> TRUE] }

VARIABLES
  contacts,    \* remote contacts, in creation order; a contact's id is its position
  convs,       \* remote conversations, in creation order; id = position
  msgs,        \* messages posted to the remote, in order
  apiVersion,  \* the remote deployment's version
  faults,      \* remote calls that ended in a fault so far
  arrived,     \* messages delivered by the chat transport so far
  hs,          \* handler states
  ledger,      \* rows of the failed_messages table, in insertion order
  wh,          \* states of the webhook handler's runs
  sent,        \* messages the telegram client delivered, in order
  env,         \* process.env: the configured secrets
  sc,          \* states of the direct-send endpoint's runs
  probe,       \* a success answer under normalisation by a Directory Client operation
  rq,          \* states of the runs of ChatwootAPI.request
  consumers,   \* states of the consumers of the failed_messages table
  clock,       \* the wall clock, in milliseconds
  uuids        \* the ids crypto.randomUUID has issued

vars ==
  <<contacts, convs, msgs, apiVersion, faults, arrived, hs, ledger, wh, sent,
    env, sc, probe, rq, consumers, clock, uuids>>

\* the state outside the two forwarders
outside == <<env, sc, probe, rq, consumers, clock, uuids>>

\* Bookkeeping of a handler, read by no code: nCreate counts the creation
\* requests its createConversation sent, listErr tells that its inbox listing
\* threw, missed counts the phases of its conflict search (list search, deep
\* scan, contact-filtered search) that ran to their end without a match,
\* lookupFaults counts the contact lookups of its createContact that threw,
\* before holds the handlers whose forward had ended when its message arrived,
\* snap is the remote as it was when its createConversation began, origin is
\* the kind of chat its message came from, where the run looked at it.
NoSnap == [entered |-> FALSE, prior |-> {}, existing |-> 0, closed |-> FALSE]

IdleHandler ==
  [pc |-> "idle", sender |-> 0, profile |-> NoProfile, text |-> NoStr,
   contactId |-> 0, contactErr |-> NoErr, upd |-> [name |-> NoStr, phone |-> NoStr],
   page |-> 0, queue |-> <<>>, createErr |-> NoErr,
   conv |-> 0, path |-> "none", err |-> NoErr,
   nCreate |-> 0, listErr |-> FALSE, missed |-> 0, lookupFaults |-> 0,
   before |-> {}, snap |-> NoSnap, origin |-> "none"]

\* a webhook body, before validation; id = 0 and NoStr stand for an absent field
NoBody ==
  [valid |-> TRUE, message_type |-> "none", content |-> NoStr, id |-> 0, source_id |-> NoStr,
   contact_inbox_source_id |-> NoStr, additional_attributes_source_id |-> NoStr]

\* A webhook run holds the handler's locals headerToken and queryToken (read
\* only when a webhook secret is configured) and bearer (read by the bearer
\* middleware only when a bearer token is configured), its body and sourceId.
\* Bookkeeping, read by no code: nFetch counts its conversation-detail
\* requests, nSend its telegram send requests, fetched tells that its detail
\* request was answered, parsed that the schema parse ran, fault names the
\* call of the run that failed, failedBefore holds the runs that had failed
\* when the run's request arrived.
IdleHook ==
  [pc |-> "idle", body |-> NoBody, sourceId |-> NoStr, nFetch |-> 0, nSend |-> 0,
   fetched |-> FALSE, headerToken |-> NoStr, queryToken |-> NoStr, bearer |-> NoStr,
   parsed |-> FALSE, fault |-> "none", failedBefore |-> {}]

\* process.env.CHATWOOT_WEBHOOK_TOKEN and process.env.API_BEARER_TOKEN; NoStr
\* stands for an unset variable
Secret == <<"s3cret">>
Wrong == <<"wrong">>
NoEnv ==
  [CHATWOOT_WEBHOOK_TOKEN |-> NoStr, API_BEARER_TOKEN |-> NoStr, CHATWOOT_IGNORE_GROUP |-> NoStr]
Envs ==
  [CHATWOOT_WEBHOOK_TOKEN : {NoStr, Secret}, API_BEARER_TOKEN : {NoStr, Secret},
   CHATWOOT_IGNORE_GROUP : {NoStr}]

\* the parts of the state that a specification of the forwarders leaves idle
RestIdle ==
  /\ sc = <<>>
  /\ probe = <<>>
  /\ rq = <<>>
  /\ consumers = <<>>
  /\ clock = 0
  /\ uuids = {}

Init ==
  /\ contacts = <<>>
  /\ convs = <<>>
  /\ msgs = <<>>
  /\ apiVersion \in ApiVersions
  /\ faults = 0
  /\ arrived = 0
  /\ hs = [h \in Handlers |-> IdleHandler]
  /\ ledger = <<>>
  /\ wh = [k \in Hooks |-> IdleHook]
  /\ sent = <<>>
  /\ env = NoEnv
  /\ RestIdle

CanFault == faults < MaxFaults

(* ------------------------- the remote's answers ----------------------- *)

Min(S) == CHOOSE x \in S : \A y \in S : x <= y

\* conversation `id` as the remote renders it, its source tag under the
\* fields of `fields`, its contact under the version's contact field
Render(id, fields) ==
  LET c == convs[id] IN
  [id |-> id,
   source_id |-> IF "source_id" \in fields THEN c.source_id ELSE NoStr,
   contact_inbox_source_id |-> IF "contact_inbox" \in fields THEN c.source_id ELSE NoStr,
   additional_attributes_source_id |->
     IF "additional_attributes" \in fields THEN c.attr ELSE NoStr,
   meta_sender_source_id |-> IF "meta_sender" \in fields THEN c.source_id ELSE NoStr,
   contact_id |-> IF apiVersion.contactField = "contact_id" THEN c.contact ELSE 0,
   contact_dot_id |-> IF apiVersion.contactField = "contact" THEN c.contact ELSE 0,
   meta_sender_id |-> IF apiVersion.contactField = "meta_sender" THEN c.contact ELSE 0]

\* GET /conversations/:id
RemoteDetail(id) == Render(id, apiVersion.detail)

\* the ids the remote lists for a query, in its list order; inboxF = 0 and
\* contactF = 0 stand for an absent filter
RemoteMatching(inboxF, contactF, statusF) ==
  SelectSeq([i \in 1..Len(convs) |-> i],
            LAMBDA i : /\ inboxF = 0 \/ convs[i].inbox = inboxF
                       /\ contactF = 0 \/ ~apiVersion.contactFilter \/ convs[i].contact = contactF
                       /\ statusF = "all" \/ convs[i].status = statusF)

\* GET /conversations?inbox_id=&contact_id=&status=&page=
RemoteList(inboxF, contactF, statusF, page) ==
  LET ids == RemoteMatching(inboxF, contactF, statusF)
      lo == (page - 1) * PageSize + 1
      hi == IF page * PageSize < Len(ids) THEN page * PageSize ELSE Len(ids)
      slice == IF lo > hi THEN <<>> ELSE SubSeq(ids, lo, hi)
  IN [wrapper |-> apiVersion.wrapper,
      items |-> [k \in 1..Len(slice) |-> Render(slice[k], apiVersion.list)]]

\* the remote's uniqueness check on the source tag of an inbox
TagTaken(inbox, tag) ==
  \E i \in 1..Len(convs) : convs[i].inbox = inbox /\ convs[i].source_id = tag

\* the remote's uniqueness check on a contact's identifier
IdentifierTaken(ident) == \E i \in 1..Len(contacts) : contacts[i].identifier = ident

\* GET /contacts/search?q= and GET /contacts?identifier=
RemoteContactsByIdentifier(ident) ==
  SelectSeq([i \in 1..Len(contacts) |-> i], LAMBDA i : contacts[i].identifier = ident)

(* --------------------- createConversation's helpers ------------------- *)

KnownWrappers == <<"array", "data.payload", "payload", "data", "conversations", "meta.payload">>

parseConversations(raw) ==
  IF \E k \in 1..Len(KnownWrappers) : KnownWrappers[k] = raw.wrapper THEN raw.items ELSE <<>>

matchesContact(conv, contactIdNum) ==
  OrId(OrId(conv.contact_id, conv.contact_dot_id), conv.meta_sender_id) = contactIdNum

matchesSourceId(conv, sourceId) ==
  Or(Or(Or(conv.source_id, conv.contact_inbox_source_id),
        conv.additional_attributes_source_id), conv.meta_sender_source_id) = sourceId

\* the deep scan's reading of a conversation detail
DetailSourceId(detail) ==
  Or(Or(Or(detail.source_id, detail.additional_attributes_source_id),
        detail.contact_inbox_source_id), detail.meta_sender_source_id)

\* Array.prototype.find: of the positions whose element satisfies the test,
\* the first; 0 if there is none
FindFirst(hits) == IF hits = {} THEN 0 ELSE Min(hits)

IdsOf(seq) == [k \in 1..Len(seq) |-> seq[k].id]

\* the status filter of createConversation's list requests
ListStatus == "all"

(* --------------------------- handler plumbing ------------------------- *)

Fault == /\ CanFault
         /\ faults' = faults + 1

NoFault == UNCHANGED faults

\* a message handler that would let the error of a forward escape it
HandlerRaise(rec, e) == [rec EXCEPT !.pc = "raised", !.err = e]

\* the message handler's catch around forwardToCharwoot logs the error: the
\* run ends, failed, inside the handler
HandlerCatch(rec, e) == [rec EXCEPT !.pc = "failed", !.err = e]

\* forwardToCharwoot's catch logs and rethrows to the message handler
Throw(rec, e) == HandlerCatch(rec, e)

\* a dispatcher that would await each handler before it delivers the next
\* message
StreamOpenSerial == \A g \in Handlers : hs[g].pc \in {"idle", "done", "failed", "skipped"}

\* the event stream delivers messages as long as no handler run let an error
\* escape
StreamOpen == \A g \in Handlers : hs[g].pc # "raised"

\* a forward that would post the message whatever createConversation returned
ConvReturnAnyId(rec, id, path) == [rec EXCEPT !.conv = id, !.path = path, !.pc = "message"]

\* createConversation returns conversation `id`; forwardToCharwoot takes its
\* id and goes on to post the message
ConvReturn(rec, id, path) ==
  IF id # 0
  THEN [rec EXCEPT !.conv = id, !.path = path, !.pc = "message"]
  ELSE Throw([rec EXCEPT !.path = path], NoIdErr)

\* the conversations of a contact in an inbox, as ids
ConvsOfContact(contactId, inbox) ==
  {i \in 1..Len(convs) : convs[i].contact = contactId /\ convs[i].inbox = inbox}

\* forwardToCharwoot calls createConversation({contact_id, inbox_id, source_id})
EnterResolver(rec) ==
  LET mine == ConvsOfContact(rec.contactId, InboxId)
  IN [rec EXCEPT !.pc = "listInbox", !.page = 1,
                 !.snap = [entered |-> TRUE, prior |-> {g \in Handlers : hs[g].conv # 0},
                           existing |-> IF mine = {} THEN 0 ELSE Min(mine),
                           closed |-> mine # {} /\ \A i \in mine : convs[i].status = "resolved"]]

\* a name comparison that would ask for an update of an unchanged name
NeedsNameUpdateAlways(desiredName, currentName) == desiredName # NoStr

\* needsNameUpdate
NeedsNameUpdate(desiredName, currentName) == desiredName # NoStr /\ desiredName # currentName

\* a phone comparison that would send every valid phone again
NeedsPhoneUpdateAlways(desiredPhone, currentPhone) == StartsWithPlus(desiredPhone)

\* needsPhoneUpdate: only a non-empty phone that starts with "+" is sent
NeedsPhoneUpdate(desiredPhone, currentPhone) ==
  StartsWithPlus(desiredPhone) /\ desiredPhone # currentPhone

\* createContact after both lookups ended without a contact, but with the
\* error of a conflict that would be lost
AfterContactMissNoId(rec) == Throw(rec, NoIdErr)

\* createContact after both lookups ended without a contact: throw error,
\* the error of the creation request
AfterContactMiss(rec) == Throw(rec, rec.contactErr)

\* forwardToCharwoot after createContact returned a contact: take its id,
\* compare the stored name and phone with the live ones
AfterContact(rec, id, currentName, currentPhone) ==
  LET desiredName == FullName(rec.profile)
      desiredPhone == rec.profile.phone
      needsNameUpdate == NeedsNameUpdate(desiredName, currentName)
      needsPhoneUpdate == NeedsPhoneUpdate(desiredPhone, currentPhone)
  IN IF id = 0 THEN Throw(rec, NoIdErr)
     ELSE IF needsNameUpdate \/ needsPhoneUpdate
     THEN [rec EXCEPT !.contactId = id, !.pc = "contactUpdate",
                      !.upd = [name |-> IF needsNameUpdate THEN desiredName ELSE NoStr,
                               phone |-> IF needsPhoneUpdate THEN desiredPhone ELSE NoStr]]
     ELSE EnterResolver([rec EXCEPT !.contactId = id])

\* an INSERT OR REPLACE keyed by the sender: a sender's earlier rows go
recordLatestPerSender(entry, id, createdAt) ==
  Append(SelectSeq(ledger, LAMBDA row : row.senderId # entry.senderId),
         [id |-> id, created_at |-> createdAt,
          senderId |-> entry.senderId, error |-> entry.error])

\* recordFailedMessage: INSERT INTO failed_messages (id, created_at, ...), the
\* id from crypto.randomUUID() and created_at from new Date().toISOString();
\* the new row takes the highest rowid. Called by no handler.
recordFailedMessage(entry, id, createdAt) ==
  Append(ledger, [id |-> id, created_at |-> createdAt,
                  senderId |-> entry.senderId, error |-> entry.error])

(* ------------------------------- actions ------------------------------ *)

\* the chat transport delivers a private text message; the handler reads the
\* sender's profile and starts forwardToCharwoot
Receive(s, p, t) ==
  /\ StreamOpen
  /\ arrived < MaxMsgs
  /\ arrived' = arrived + 1
  /\ hs' = [hs EXCEPT ![arrived + 1] =
              [IdleHandler EXCEPT !.pc = "contactPost", !.sender = s, !.profile = p, !.text = t,
                                  !.before = {g \in Handlers : hs[g].pc \in {"done", "failed"}}]]
  /\ UNCHANGED <<contacts, convs, msgs, apiVersion, faults, ledger, wh, sent, outside>>

\* createContact: POST /contacts
ContactPost(h) ==
  /\ hs[h].pc = "contactPost"
  /\ LET rec == hs[h]
         ident == IdentityKey(rec.sender)
         name == Or(FullName(rec.profile), ident)
         phone == rec.profile.phone
     IN \/ /\ NoFault
           /\ IF IdentifierTaken(ident)
              THEN /\ hs' = [hs EXCEPT ![h] =
                        IF MessageIncludesConflictStatus(IdentifierConflict)
                        THEN [rec EXCEPT !.pc = "contactSearch", !.contactErr = IdentifierConflict]
                        ELSE Throw([rec EXCEPT !.contactErr = IdentifierConflict],
                                   IdentifierConflict)]
                   /\ UNCHANGED contacts
              ELSE /\ contacts' = Append(contacts,
                                         [identifier |-> ident, name |-> name, phone_number |-> phone])
                   /\ hs' = [hs EXCEPT ![h] = AfterContact(rec, Len(contacts) + 1, name, phone)]
        \/ /\ Fault
           /\ \E e \in Faults :
                hs' = [hs EXCEPT ![h] =
                         IF MessageIncludesConflictStatus(e)
                         THEN [rec EXCEPT !.pc = "contactSearch", !.contactErr = e]
                         ELSE Throw(rec, e)]
           /\ UNCHANGED contacts
  /\ UNCHANGED <<convs, msgs, apiVersion, arrived, ledger, wh, sent, outside>>

\* createContact's catch: GET /contacts/search?q=
ContactSearch(h) ==
  /\ hs[h].pc = "contactSearch"
  /\ LET rec == hs[h]
         payload == RemoteContactsByIdentifier(IdentityKey(rec.sender))
     IN \/ /\ NoFault
           /\ hs' = [hs EXCEPT ![h] =
                IF Len(payload) > 0
                THEN AfterContact(rec, payload[1], contacts[payload[1]].name,
                                  contacts[payload[1]].phone_number)
                ELSE [rec EXCEPT !.pc = "contactByIdentifier"]]
        \/ /\ Fault
           /\ hs' = [hs EXCEPT ![h] = [rec EXCEPT !.pc = "contactByIdentifier",
                                                 !.lookupFaults = rec.lookupFaults + 1]]
  /\ UNCHANGED <<contacts, convs, msgs, apiVersion, arrived, ledger, wh, sent, outside>>

\* createContact's catch: GET /contacts?identifier=, then throw error
ContactByIdentifier(h) ==
  /\ hs[h].pc = "contactByIdentifier"
  /\ LET rec == hs[h]
         payload == RemoteContactsByIdentifier(IdentityKey(rec.sender))
     IN \/ /\ NoFault
           /\ hs' = [hs EXCEPT ![h] =
                IF Len(payload) > 0
                THEN AfterContact(rec, payload[1], contacts[payload[1]].name,
                                  contacts[payload[1]].phone_number)
                ELSE AfterContactMiss(rec)]
        \/ /\ Fault
           /\ hs' = [hs EXCEPT ![h] =
                       AfterContactMiss([rec EXCEPT !.lookupFaults = rec.lookupFaults + 1])]
  /\ UNCHANGED <<contacts, convs, msgs, apiVersion, arrived, ledger, wh, sent, outside>>

\* an update whose failure would end the forward
ContactUpdateAborts(h) ==
  /\ hs[h].pc = "contactUpdate"
  /\ LET rec == hs[h]
         old == contacts[rec.contactId]
     IN \/ /\ NoFault
           /\ contacts' = [contacts EXCEPT ![rec.contactId] =
                [old EXCEPT !.name = Or(rec.upd.name, old.name),
                            !.phone_number = Or(rec.upd.phone, old.phone_number)]]
           /\ hs' = [hs EXCEPT ![h] = EnterResolver(hs[h])]
        \/ /\ Fault
           /\ UNCHANGED contacts
           /\ \E e \in Faults : hs' = [hs EXCEPT ![h] = Throw(hs[h], e)]
  /\ UNCHANGED <<convs, msgs, apiVersion, arrived, ledger, wh, sent, outside>>

\* updateContact: PUT /contacts/:id with the fields that differ; a failure is
\* caught and logged by forwardToCharwoot
ContactUpdate(h) ==
  /\ hs[h].pc = "contactUpdate"
  /\ LET rec == hs[h]
         old == contacts[rec.contactId]
     IN \/ /\ NoFault
           /\ contacts' = [contacts EXCEPT ![rec.contactId] =
                [old EXCEPT !.name = Or(rec.upd.name, old.name),
                            !.phone_number = Or(rec.upd.phone, old.phone_number)]]
        \/ /\ Fault
           /\ UNCHANGED contacts
  /\ hs' = [hs EXCEPT ![h] = EnterResolver(hs[h])]
  /\ UNCHANGED <<convs, msgs, apiVersion, arrived, ledger, wh, sent, outside>>

(* ------------------- createConversation, step by step ----------------- *)

\* the creation request's body
\* a creation that tags the conversation with the bare sender id
CreateBodyBareId(rec) ==
  [contact_id |-> rec.contactId, inbox_id |-> InboxId,
   source_id |-> SenderIdStr(rec.sender), attr_source_id |-> SenderIdStr(rec.sender)]

CreateBody(rec) ==
  [contact_id |-> rec.contactId, inbox_id |-> InboxId,
   source_id |-> IdentityKey(rec.sender), attr_source_id |-> IdentityKey(rec.sender)]

\* a last resort that would send the source tag again
FallbackBodyTagged(rec) ==
  [contact_id |-> rec.contactId, inbox_id |-> InboxId,
   source_id |-> IdentityKey(rec.sender), attr_source_id |-> IdentityKey(rec.sender)]

\* the last resort's body: source_id intentionally omitted
FallbackBody(rec) ==
  [contact_id |-> rec.contactId, inbox_id |-> InboxId,
   source_id |-> NoStr, attr_source_id |-> IdentityKey(rec.sender)]

\* the conversation the remote stores for a creation request
NewConversation(body) ==
  [contact |-> body.contact_id, inbox |-> body.inbox_id, source_id |-> body.source_id,
   attr |-> body.attr_source_id, status |-> "open"]

\* findExistingByContact after page rec.page was answered with `list`
AfterListInbox(rec, list) ==
  LET conversations == parseConversations(list)
      existing == FindFirst({k \in 1..Len(conversations) :
                               matchesContact(conversations[k], rec.contactId)})
  IN IF existing # 0 THEN ConvReturn(rec, conversations[existing].id, "found")
     ELSE IF Len(conversations) = 0 \/ rec.page >= MaxPages THEN [rec EXCEPT !.pc = "create"]
     ELSE [rec EXCEPT !.page = rec.page + 1]

\* catch (e): ignore listing errors, fall back to create
AfterListInboxError(rec, e) == [rec EXCEPT !.pc = "create", !.listErr = TRUE]

\* catch (createErr): a source_id conflict starts the search, anything else
\* is rethrown
AfterCreateError(rec, e) ==
  IF IsSourceIdConflict(e)
  THEN [rec EXCEPT !.pc = "search", !.page = 1, !.createErr = e]
  ELSE Throw([rec EXCEPT !.createErr = e], e)

\* a source search that would go on until it meets an empty page
AfterSearchNoCap(rec, list) ==
  LET convList == parseConversations(list)
      existing == FindFirst({k \in 1..Len(convList) :
                               matchesSourceId(convList[k], IdentityKey(rec.sender))})
  IN IF existing # 0 THEN ConvReturn(rec, convList[existing].id, "searched")
     ELSE IF Len(convList) = 0
     THEN [rec EXCEPT !.pc = "deep", !.page = 1, !.missed = 1]
     ELSE [rec EXCEPT !.page = rec.page + 1]

\* the source search after page rec.page was answered with `list`
AfterSearch(rec, list) ==
  LET convList == parseConversations(list)
      existing == FindFirst({k \in 1..Len(convList) :
                               matchesSourceId(convList[k], IdentityKey(rec.sender))})
  IN IF existing # 0 THEN ConvReturn(rec, convList[existing].id, "searched")
     ELSE IF Len(convList) = 0 \/ rec.page >= MaxPages
     THEN [rec EXCEPT !.pc = "deep", !.page = 1, !.missed = 1]
     ELSE [rec EXCEPT !.page = rec.page + 1]

\* catch (searchErr): logged, the last resort follows
AfterSearchError(rec, e) == [rec EXCEPT !.pc = "fallback", !.queue = <<>>]

\* the deep scan after page rec.page was answered with `list`
AfterDeepList(rec, list) ==
  LET convList == parseConversations(list)
  IN IF Len(convList) = 0 THEN [rec EXCEPT !.pc = "byContact", !.missed = 2]
     ELSE [rec EXCEPT !.pc = "deepDetail", !.queue = IdsOf(convList)]

\* the deep scan's loop after one detail was handled: the next detail, the
\* next page, or the contact-filtered search
DeepNext(rec) ==
  LET rest == Tail(rec.queue)
  IN IF rest # <<>> THEN [rec EXCEPT !.queue = rest]
     ELSE IF rec.page >= MaxPages THEN [rec EXCEPT !.pc = "byContact", !.queue = <<>>, !.missed = 2]
     ELSE [rec EXCEPT !.pc = "deep", !.page = rec.page + 1, !.queue = <<>>]

\* the contact-filtered search after its list was answered
AfterByContact(rec, list) ==
  LET convList == parseConversations(list)
      existing == FindFirst({k \in 1..Len(convList) :
                               matchesSourceId(convList[k], IdentityKey(rec.sender))})
  IN IF existing # 0 THEN ConvReturn(rec, convList[existing].id, "byContact")
     ELSE IF Len(convList) = 0 THEN [rec EXCEPT !.pc = "fallback", !.missed = 3]
     ELSE [rec EXCEPT !.pc = "byContactDetail", !.queue = IdsOf(convList)]

\* the contact-filtered search's detail loop after one detail was handled
ByContactNext(rec) ==
  LET rest == Tail(rec.queue)
  IN IF rest # <<>> THEN [rec EXCEPT !.queue = rest]
     ELSE [rec EXCEPT !.pc = "fallback", !.queue = <<>>, !.missed = 3]

\* catch (fallbackErr), then throw createErr
AfterFallbackError(rec, e) == Throw(rec, rec.createErr)

\* findExistingByContact: GET /conversations?inbox_id=&status=all&page=
ListInbox(h) ==
  /\ hs[h].pc = "listInbox"
  /\ \/ /\ NoFault
        /\ hs' = [hs EXCEPT ![h] =
                    AfterListInbox(hs[h], RemoteList(InboxId, 0, ListStatus, hs[h].page))]
     \/ /\ Fault
        /\ \E e \in Faults : hs' = [hs EXCEPT ![h] = AfterListInboxError(hs[h], e)]
  /\ UNCHANGED <<contacts, convs, msgs, apiVersion, arrived, ledger, wh, sent, outside>>

\* POST /conversations with the source tag
Create(h) ==
  /\ hs[h].pc = "create"
  /\ LET rec == [hs[h] EXCEPT !.nCreate = hs[h].nCreate + 1]
         body == CreateBody(rec)
     IN \/ /\ NoFault
           /\ IF body.source_id # NoStr /\ TagTaken(body.inbox_id, body.source_id)
              THEN /\ hs' = [hs EXCEPT ![h] = AfterCreateError(rec, SourceConflict)]
                   /\ UNCHANGED convs
              ELSE /\ convs' = Append(convs, NewConversation(body))
                   /\ hs' = [hs EXCEPT ![h] = ConvReturn(rec, Len(convs) + 1, "created")]
        \/ /\ Fault
           /\ \E e \in Faults : hs' = [hs EXCEPT ![h] = AfterCreateError(rec, e)]
           /\ UNCHANGED convs
  /\ UNCHANGED <<contacts, msgs, apiVersion, arrived, ledger, wh, sent, outside>>

\* the source search: GET /conversations?status=all&page=
Search(h) ==
  /\ hs[h].pc = "search"
  /\ \/ /\ NoFault
        /\ hs' = [hs EXCEPT ![h] = AfterSearch(hs[h], RemoteList(0, 0, ListStatus, hs[h].page))]
     \/ /\ Fault
        /\ \E e \in Faults : hs' = [hs EXCEPT ![h] = AfterSearchError(hs[h], e)]
  /\ UNCHANGED <<contacts, convs, msgs, apiVersion, arrived, ledger, wh, sent, outside>>

\* the deep scan's list: GET /conversations?status=all&page=
Deep(h) ==
  /\ hs[h].pc = "deep"
  /\ \/ /\ NoFault
        /\ hs' = [hs EXCEPT ![h] = AfterDeepList(hs[h], RemoteList(0, 0, ListStatus, hs[h].page))]
     \/ /\ Fault
        /\ \E e \in Faults : hs' = [hs EXCEPT ![h] = AfterSearchError(hs[h], e)]
  /\ UNCHANGED <<contacts, convs, msgs, apiVersion, arrived, ledger, wh, sent, outside>>

\* the deep scan's detail: GET /conversations/:id; a failure is logged and
\* the loop goes on
DeepDetail(h) ==
  /\ hs[h].pc = "deepDetail"
  /\ LET rec == hs[h]
         detail == RemoteDetail(Head(rec.queue))
     IN \/ /\ NoFault
           /\ hs' = [hs EXCEPT ![h] =
                IF DetailSourceId(detail) = IdentityKey(rec.sender)
                THEN ConvReturn([rec EXCEPT !.queue = <<>>], detail.id, "deep")
                ELSE DeepNext(rec)]
        \/ /\ Fault
           /\ hs' = [hs EXCEPT ![h] = DeepNext(rec)]
  /\ UNCHANGED <<contacts, convs, msgs, apiVersion, arrived, ledger, wh, sent, outside>>

\* the contact-filtered search: GET /conversations?contact_id=&status=all
ByContact(h) ==
  /\ hs[h].pc = "byContact"
  /\ \/ /\ NoFault
        /\ hs' = [hs EXCEPT ![h] =
                    AfterByContact(hs[h], RemoteList(0, hs[h].contactId, ListStatus, 1))]
     \/ /\ Fault
        /\ hs' = [hs EXCEPT ![h] = [hs[h] EXCEPT !.pc = "fallback"]]
  /\ UNCHANGED <<contacts, convs, msgs, apiVersion, arrived, ledger, wh, sent, outside>>

\* the contact-filtered search's detail: GET /conversations/:id
ByContactDetail(h) ==
  /\ hs[h].pc = "byContactDetail"
  /\ LET rec == hs[h]
         detail == RemoteDetail(Head(rec.queue))
     IN \/ /\ NoFault
           /\ hs' = [hs EXCEPT ![h] =
                IF DetailSourceId(detail) = IdentityKey(rec.sender)
                THEN ConvReturn([rec EXCEPT !.queue = <<>>], detail.id, "byContactDetail")
                ELSE ByContactNext(rec)]
        \/ /\ Fault
           /\ hs' = [hs EXCEPT ![h] = ByContactNext(rec)]
  /\ UNCHANGED <<contacts, convs, msgs, apiVersion, arrived, ledger, wh, sent, outside>>

\* the last resort: POST /conversations without source_id
Fallback(h) ==
  /\ hs[h].pc = "fallback"
  /\ LET rec == [hs[h] EXCEPT !.nCreate = hs[h].nCreate + 1]
         body == FallbackBody(rec)
     IN \/ /\ NoFault
           /\ IF body.source_id # NoStr /\ TagTaken(body.inbox_id, body.source_id)
              THEN /\ hs' = [hs EXCEPT ![h] = AfterFallbackError(rec, SourceConflict)]
                   /\ UNCHANGED convs
              ELSE /\ convs' = Append(convs, NewConversation(body))
                   /\ hs' = [hs EXCEPT ![h] = ConvReturn(rec, Len(convs) + 1, "fallback")]
        \/ /\ Fault
           /\ \E e \in Faults : hs' = [hs EXCEPT ![h] = AfterFallbackError(rec, e)]
           /\ UNCHANGED convs
  /\ UNCHANGED <<contacts, msgs, apiVersion, arrived, ledger, wh, sent, outside>>

\* a message post that would carry the other direction
MessageBodyOutgoing(rec) ==
  [conversation |-> rec.conv, message_type |-> "outgoing", content |-> rec.text]

\* createMessage's request: the content, message_type "incoming"
MessageBody(rec) ==
  [conversation |-> rec.conv, message_type |-> "incoming", content |-> rec.text]

\* createMessage: POST /conversations/:id/messages
Message(h) ==
  /\ hs[h].pc = "message"
  /\ \/ /\ NoFault
        /\ msgs' = Append(msgs, MessageBody(hs[h]))
        /\ hs' = [hs EXCEPT ![h] = [hs[h] EXCEPT !.pc = "done"]]
     \/ /\ Fault
        /\ \E e \in Faults : hs' = [hs EXCEPT ![h] = Throw(hs[h], e)]
        /\ UNCHANGED msgs
  /\ UNCHANGED <<contacts, convs, apiVersion, arrived, ledger, wh, sent, outside>>

\* a support agent resolves a conversation on the remote
AgentResolve(c) ==
  /\ convs[c].status = "open"
  /\ convs' = [convs EXCEPT ![c].status = "resolved"]
  /\ UNCHANGED <<contacts, msgs, apiVersion, faults, arrived, hs, ledger, wh, sent, outside>>

Next ==
  \/ \E s \in Senders, p \in Profiles, t \in Texts : Receive(s, p, t)
  \/ \E h \in Handlers :
       \/ ContactPost(h)
       \/ ContactSearch(h)
       \/ ContactByIdentifier(h)
       \/ ContactUpdate(h)
       \/ ListInbox(h)
       \/ Create(h)
       \/ Search(h)
       \/ Deep(h)
       \/ DeepDetail(h)
       \/ ByContact(h)
       \/ ByContactDetail(h)
       \/ Fallback(h)
       \/ Message(h)
  \/ \E c \in 1..Len(convs) : AgentResolve(c)

Spec == Init /\ [][Next]_vars

(* ----------------------------- a busy inbox --------------------------- *)
\* The bridge starts against an inbox that already lists MaxPages full pages
\* of conversations of earlier senders, one per sender, and every remote call
\* is answered: no fault is left to occur.

BusyCount == MaxPages * PageSize

BusyInit ==
  /\ contacts = [i \in 1..BusyCount |->
                   [identifier |-> IdentityKey(NumSenders + i), name |-> <<"John">>,
                    phone_number |-> NoStr]]
  /\ convs = [i \in 1..BusyCount |->
                NewConversation([contact_id |-> i, inbox_id |-> InboxId,
                                 source_id |-> IdentityKey(NumSenders + i),
                                 attr_source_id |-> IdentityKey(NumSenders + i)])]
  /\ msgs = <<>>
  /\ apiVersion \in ApiVersions
  /\ faults = MaxFaults
  /\ arrived = 0
  /\ hs = [h \in Handlers |-> IdleHandler]
  /\ ledger = <<>>
  /\ wh = [k \in Hooks |-> IdleHook]
  /\ sent = <<>>
  /\ env = NoEnv
  /\ RestIdle

BusyNext ==
  \/ \E s \in Senders, p \in Profiles, t \in Texts : Receive(s, p, t)
  \/ \E h \in Handlers :
       \/ ContactPost(h)
       \/ ContactSearch(h)
       \/ ContactUpdate(h)
       \/ ListInbox(h)
       \/ Create(h)
       \/ Search(h)
       \/ Deep(h)
       \/ DeepDetail(h)
       \/ ByContact(h)
       \/ ByContactDetail(h)
       \/ Fallback(h)
       \/ Message(h)
  \/ \E c \in (BusyCount + 1)..Len(convs) : AgentResolve(c)

BusySpec == BusyInit /\ [][BusyNext]_vars

(* ------------------------- the webhook receiver ----------------------- *)
\* POST /webhooks/chatwoot, run by the support desk's events against a
\* remote that holds a conversation the bridge created for sender 1, a
\* conversation of another channel and a conversation the last resort
\* created for sender 2.

OtherTag == <<"whatsapp_", "9">>

HookInit ==
  /\ contacts = << [identifier |-> IdentityKey(1), name |-> <<"John">>, phone_number |-> NoStr],
                   [identifier |-> OtherTag, name |-> <<"John">>, phone_number |-> NoStr],
                   [identifier |-> IdentityKey(2), name |-> <<"John">>, phone_number |-> NoStr] >>
  /\ convs = << NewConversation([contact_id |-> 1, inbox_id |-> InboxId,
                                  source_id |-> IdentityKey(1),
                                  attr_source_id |-> IdentityKey(1)]),
                NewConversation([contact_id |-> 2, inbox_id |-> InboxId,
                                  source_id |-> OtherTag, attr_source_id |-> NoStr]),
                NewConversation([contact_id |-> 3, inbox_id |-> InboxId,
                                  source_id |-> NoStr, attr_source_id |-> IdentityKey(2)]) >>
  /\ msgs = <<>>
  /\ apiVersion \in ApiVersions
  /\ faults = 0
  /\ arrived = 0
  /\ hs = [h \in Handlers |-> IdleHandler]
  /\ ledger = <<>>
  /\ wh = [k \in Hooks |-> IdleHook]
  /\ sent = <<>>
  /\ env \in Envs
  /\ RestIdle

\* where an event's conversation metadata can carry the source tag
BodyPlaces == {"source_id", "contact_inbox", "additional_attributes", "none"}

\* the body of an event about conversation c (0: the metadata names no
\* conversation id), carrying the tag at `place`
BodyOf(c, place, mt, content) ==
  LET tag == IF c = 0 THEN IdentityKey(1)
             ELSE IF place = "additional_attributes" THEN convs[c].attr
             ELSE convs[c].source_id
  IN [valid |-> TRUE, message_type |-> mt, content |-> content, id |-> c,
      source_id |-> IF place = "source_id" THEN tag ELSE NoStr,
      contact_inbox_source_id |-> IF place = "contact_inbox" THEN tag ELSE NoStr,
      additional_attributes_source_id |->
        IF place = "additional_attributes" THEN tag ELSE NoStr]

\* the bodies the support desk posts, and bodies that fail the schema (valid
\* = FALSE: a declared key holds a value of another type): a bare one, and
\* two that carry an outgoing message of a tagged conversation
WebhookBodies ==
  { BodyOf(c, place, mt, content) :
      c \in 0..Len(convs), place \in BodyPlaces, mt \in {"outgoing", "incoming"},
      content \in {<<"Hello">>, NoStr} }
  \cup { [NoBody EXCEPT !.valid = FALSE] }
  \cup { [BodyOf(c, "source_id", "outgoing", <<"Hello">>) EXCEPT !.valid = FALSE] :
           c \in {1, Len(convs)} }

\* the credentials a webhook request carries: the x-webhook-token header, the
\* token query parameter and the Authorization header
WebhookRequests ==
  { [headerToken |-> ht, queryToken |-> qt, authorization |-> <<"Bearer ", "s3cret">>] :
      ht \in {NoStr, Secret, Wrong}, qt \in {NoStr} }
  \cup { [headerToken |-> ht, queryToken |-> Secret, authorization |-> NoStr] :
           ht \in {NoStr, Wrong} }

\* the bearer plugin: the token of an "Authorization: Bearer <token>" header
BearerOf(authorization) ==
  IF authorization # NoStr /\ Head(authorization) = "Bearer " THEN Tail(authorization)
  ELSE NoStr

\* the bearer middleware, installed only when API_BEARER_TOKEN is set:
\* !bearer || bearer !== process.env.API_BEARER_TOKEN throws Unauthorized
BearerPasses(bearer) ==
  env.API_BEARER_TOKEN = NoStr \/ (bearer # NoStr /\ bearer = env.API_BEARER_TOKEN)

\* const token = headerToken || queryToken
WebhookToken(headerToken, queryToken) == Or(headerToken, queryToken)

\* a token check that lets a request without any token through
WebhookTokenPassesIfAbsent(token) ==
  env.CHATWOOT_WEBHOOK_TOKEN = NoStr \/ token = NoStr \/ token = env.CHATWOOT_WEBHOOK_TOKEN

\* if (process.env.CHATWOOT_WEBHOOK_TOKEN) { if (token !== it) throw Unauthorized }
WebhookTokenPasses(token) ==
  env.CHATWOOT_WEBHOOK_TOKEN = NoStr \/ token = env.CHATWOOT_WEBHOOK_TOKEN

\* a schema that accepts every body
SchemaAcceptsAll(body) == TRUE

\* chatwootWebhookSchema.parse throws on a body that does not match the shape
SchemaAccepts(body) == body.valid

\* chatwootWebhookSchema.parse: an object schema keeps its declared keys
\* (message_type, content, conversation.id, conversation.source_id) and
\* strips every other key
ParseWebhook(body) ==
  [body EXCEPT !.contact_inbox_source_id = NoStr, !.additional_attributes_source_id = NoStr]

\* a handler that would forward every event with content
EligibleAnyDirection(parsed) == parsed.content # NoStr

\* parsed.message_type === "outgoing" && parsed.content
Eligible(parsed) == parsed.message_type = "outgoing" /\ parsed.content # NoStr

\* sourceId read from the parsed payload
PayloadSourceId(parsed) ==
  Or(Or(parsed.source_id, parsed.contact_inbox_source_id),
     parsed.additional_attributes_source_id)

\* sourceId read from the fetched conversation detail
FetchedSourceId(convo) ==
  Or(Or(convo.source_id, convo.contact_inbox_source_id),
     convo.additional_attributes_source_id)

\* sourceId.startsWith("telegram_")
StartsWithTelegram(str) == str # NoStr /\ Head(str) = "telegram_"

\* sourceId.replace("telegram_", ""), of a sourceId that starts with it
TelegramIdOf(str) == Tail(str)

\* a handler that sends for every tag it recovers
AfterSourceIdAnyTag(rec, sourceId) ==
  IF sourceId # NoStr
  THEN [rec EXCEPT !.sourceId = sourceId, !.pc = "send"]
  ELSE [rec EXCEPT !.sourceId = sourceId, !.pc = "done"]

\* if (sourceId && sourceId.startsWith("telegram_")) send, else skip
AfterSourceId(rec, sourceId) ==
  IF StartsWithTelegram(sourceId)
  THEN [rec EXCEPT !.sourceId = sourceId, !.pc = "send"]
  ELSE [rec EXCEPT !.sourceId = sourceId, !.pc = "done"]

\* the middleware and the handler up to its first await: bearer check, token
\* check, parse, eligibility, sourceId of the payload
WebhookReceive(k, req, body) ==
  /\ wh[k].pc = "idle"
  /\ \A j \in Hooks : j < k => wh[j].pc # "idle"
  /\ LET arriving == [wh[k] EXCEPT !.failedBefore = {j \in Hooks : wh[j].fault # "none"}]
         atGate == IF env.API_BEARER_TOKEN # NoStr
                   THEN [arriving EXCEPT !.bearer = BearerOf(req.authorization)]
                   ELSE arriving
         atToken == IF env.CHATWOOT_WEBHOOK_TOKEN # NoStr
                    THEN [atGate EXCEPT !.headerToken = req.headerToken,
                                        !.queryToken = req.queryToken]
                    ELSE atGate
         rec == [atToken EXCEPT !.body = body, !.parsed = TRUE]
         parsed == ParseWebhook(body)
         sourceId == PayloadSourceId(parsed)
     IN wh' = [wh EXCEPT ![k] =
                 IF ~BearerPasses(atGate.bearer) THEN [atGate EXCEPT !.pc = "unauthorized"]
                 ELSE IF ~WebhookTokenPasses(WebhookToken(atToken.headerToken,
                                                          atToken.queryToken))
                   THEN [atToken EXCEPT !.pc = "unauthorized"]
                 ELSE IF ~SchemaAccepts(body) THEN [rec EXCEPT !.pc = "rejected"]
                 ELSE IF ~Eligible(parsed) THEN [rec EXCEPT !.pc = "done"]
                 ELSE IF sourceId = NoStr /\ parsed.id # 0 THEN [rec EXCEPT !.pc = "fetch"]
                 ELSE AfterSourceId(rec, sourceId)]
  /\ UNCHANGED <<contacts, convs, msgs, apiVersion, faults, arrived, hs, ledger, sent, outside>>

\* a fetch failure that leaves the handler
AfterFetchErrorRaised(rec) == [rec EXCEPT !.fault = "fetch", !.pc = "rejected"]

\* catch (err) { logger.error(..., "Failed to forward Chatwoot message to Telegram") }
AfterFetchError(rec) == [rec EXCEPT !.fault = "fetch", !.pc = "done"]

\* catch (_err) { logger.error(..., "Failed to send message to Telegram") }
AfterSendError(rec) == [rec EXCEPT !.fault = "send", !.pc = "done"]

\* cw.getConversation(String(parsed.conversation.id)); a failure is caught
\* and logged, nothing is sent
WebhookFetch(k) ==
  /\ wh[k].pc = "fetch"
  /\ LET rec == [wh[k] EXCEPT !.nFetch = wh[k].nFetch + 1]
     IN \/ /\ NoFault
           /\ wh' = [wh EXCEPT ![k] =
                       AfterSourceId([rec EXCEPT !.fetched = TRUE],
                                     FetchedSourceId(RemoteDetail(rec.body.id)))]
        \/ /\ Fault
           /\ wh' = [wh EXCEPT ![k] = AfterFetchError(rec)]
  /\ UNCHANGED <<contacts, convs, msgs, apiVersion, arrived, hs, ledger, sent, outside>>

\* telegramClient.sendMessage(telegramId, { message: parsed.content }); a
\* failure is caught and logged
WebhookSend(k) ==
  /\ wh[k].pc = "send"
  /\ LET rec == [wh[k] EXCEPT !.nSend = wh[k].nSend + 1]
     IN \/ /\ NoFault
           /\ wh' = [wh EXCEPT ![k] = [rec EXCEPT !.pc = "done"]]
           /\ sent' = Append(sent, [to |-> TelegramIdOf(wh[k].sourceId),
                                    message |-> wh[k].body.content])
        \/ /\ Fault
           /\ wh' = [wh EXCEPT ![k] = AfterSendError(rec)]
           /\ UNCHANGED sent
  /\ UNCHANGED <<contacts, convs, msgs, apiVersion, arrived, hs, ledger, outside>>

HookNext ==
  \/ \E k \in Hooks, req \in WebhookRequests, body \in WebhookBodies :
       WebhookReceive(k, req, body)
  \/ \E k \in Hooks :
       \/ WebhookFetch(k)
       \/ WebhookSend(k)

HookSpec == HookInit /\ [][HookNext]_vars

(* ------------------------ the direct-send endpoint -------------------- *)

\* A run of POST /telegram/send-channel holds the request's Authorization
\* header and body and the resolved peer; nSend counts its telegram send
\* requests (bookkeeping, read by no code).
NoChannelBody == [channel |-> NoStr, message |-> NoStr]

IdleSend ==
  [pc |-> "idle", authorization |-> NoStr, body |-> NoChannelBody, peer |-> NoStr,
   nSend |-> 0]

\* the Authorization headers a request carries: none, the right and a wrong
\* bearer token, the token without scheme, a lower-case scheme, the token
\* after extra white space
AuthHeaders ==
  { NoStr, <<"Bearer ", "s3cret">>, <<"Bearer ", "wrong">>, <<"s3cret">>, <<"bearer ", "s3cret">>,
    <<"Bearer ", " ", "s3cret">> }

ChannelBodies ==
  [channel : {NoStr, <<"@", "news">>, <<"12345">>}, message : {NoStr, <<"Hi">>}]

SendInit ==
  /\ contacts = <<>>
  /\ convs = <<>>
  /\ msgs = <<>>
  /\ apiVersion \in ApiVersions
  /\ faults = 0
  /\ arrived = 0
  /\ hs = [h \in Handlers |-> IdleHandler]
  /\ ledger = <<>>
  /\ wh = [k \in Hooks |-> IdleHook]
  /\ sent = <<>>
  /\ env \in {e \in Envs : e.CHATWOOT_WEBHOOK_TOKEN = NoStr}
  /\ sc = [c \in Calls |-> IdleSend]
  /\ probe = <<>>
  /\ rq = <<>>
  /\ consumers = <<>>
  /\ clock = 0
  /\ uuids = {}

\* authHeader.startsWith("Bearer ") ? authHeader.replace(/^Bearer\s+/i, "") : undefined
ProvidedToken(authHeader) ==
  IF authHeader # NoStr /\ Head(authHeader) = "Bearer "
  THEN SelectSeq(Tail(authHeader), LAMBDA x : x # " ")
  ELSE NoStr

\* an endpoint that, like the global middleware, asks for no token when none
\* is configured
DirectGateOptional(expectedToken, authHeader) ==
  IF expectedToken = NoStr THEN "pass"
  ELSE IF ProvidedToken(authHeader) = NoStr \/ ProvidedToken(authHeader) # expectedToken
    THEN "unauthorized"
  ELSE "pass"

\* if (!expectedToken) throw ...must be set...; if (!providedToken ||
\* providedToken !== expectedToken) throw Unauthorized
DirectGate(expectedToken, authHeader) ==
  IF expectedToken = NoStr THEN "refused"
  ELSE IF ProvidedToken(authHeader) = NoStr \/ ProvidedToken(authHeader) # expectedToken
    THEN "unauthorized"
  ELSE "pass"

\* z.object({ channel: z.string().min(1), message: z.string().min(1) })
ChannelSchemaAccepts(body) == body.channel # NoStr /\ body.message # NoStr

\* channel.replace(/^@/, "")
StripAt(channel) == IF channel # NoStr /\ Head(channel) = "@" THEN Tail(channel) ELSE channel

\* the entity telegramClient.getEntity resolves a handle to
EntityOf(handle) == <<"entity:">> \o handle

\* the middleware and the handler up to its first await (getEntity)
DirectReceive(c, authHeader, body) ==
  /\ sc[c].pc = "idle"
  /\ \A j \in Calls : j < c => sc[j].pc # "idle"
  /\ LET rec == [sc[c] EXCEPT !.authorization = authHeader]
         gate == DirectGate(env.API_BEARER_TOKEN, authHeader)
     IN sc' = [sc EXCEPT ![c] =
                 IF ~BearerPasses(BearerOf(authHeader)) THEN [rec EXCEPT !.pc = "unauthorized"]
                 ELSE IF gate # "pass" THEN [rec EXCEPT !.pc = gate]
                 ELSE IF ~ChannelSchemaAccepts(body) THEN [rec EXCEPT !.pc = "invalid"]
                 ELSE [rec EXCEPT !.body = body, !.pc = "resolve"]]
  /\ UNCHANGED <<contacts, convs, msgs, apiVersion, faults, arrived, hs, ledger, wh, sent,
                 env, probe, rq, consumers, clock, uuids>>

\* peer = await telegramClient.getEntity(channel.replace(/^@/, "")); on a
\* failure the raw channel string is the peer
DirectResolve(c) ==
  /\ sc[c].pc = "resolve"
  /\ \/ /\ NoFault
        /\ sc' = [sc EXCEPT ![c] = [sc[c] EXCEPT !.peer = EntityOf(StripAt(sc[c].body.channel)),
                                                 !.pc = "send"]]
     \/ /\ Fault
        /\ sc' = [sc EXCEPT ![c] = [sc[c] EXCEPT !.peer = sc[c].body.channel, !.pc = "send"]]
  /\ UNCHANGED <<contacts, convs, msgs, apiVersion, arrived, hs, ledger, wh, sent,
                 env, probe, rq, consumers, clock, uuids>>

\* await telegramClient.sendMessage(peer, { message }); a failure is
\* answered with "Failed to send: ..."
DirectSend(c) ==
  /\ sc[c].pc = "send"
  /\ LET rec == [sc[c] EXCEPT !.nSend = sc[c].nSend + 1]
     IN \/ /\ NoFault
           /\ sc' = [sc EXCEPT ![c] = [rec EXCEPT !.pc = "done"]]
           /\ sent' = Append(sent, [to |-> sc[c].peer, message |-> sc[c].body.message])
        \/ /\ Fault
           /\ sc' = [sc EXCEPT ![c] = [rec EXCEPT !.pc = "failed"]]
           /\ UNCHANGED sent
  /\ UNCHANGED <<contacts, convs, msgs, apiVersion, arrived, hs, ledger, wh,
                 env, probe, rq, consumers, clock, uuids>>

SendNext ==
  \/ \E c \in Calls, authHeader \in AuthHeaders, body \in ChannelBodies :
       DirectReceive(c, authHeader, body)
  \/ \E c \in Calls :
       \/ DirectResolve(c)
       \/ DirectSend(c)

SendSpec == SendInit /\ [][SendNext]_vars

(* ------------------------ response normalisation --------------------- *)

\* A success answer to a contact, conversation or message request, as the
\* object ids found where the client looks: under the operation's own key
\* (contact, conversation, message), under payload.<key>, in a payload that
\* is the object itself, at the top level, and under a key no operation
\* reads; 0: nothing there. A success answer to a list request is a wrapper
\* and the ids of its items.
ObjectAnswers ==
  [named : 0..MaxAnswerId, payloadNamed : 0..MaxAnswerId, payloadId : 0..MaxAnswerId,
   id : 0..MaxAnswerId, other : 0..MaxAnswerId]

ListAnswers ==
  [wrapper : {KnownWrappers[k] : k \in 1..Len(KnownWrappers)} \cup {"results"},
   items : {<<>>, <<1>>}]

\* what an operation hands to its caller: an object (its id), the raw answer
\* (the id at its top level), a list, or a thrown "Unexpected ... response"
Object(n) == [kind |-> "object", id |-> n, items |-> <<>>]
Unexpected == [kind |-> "error", id |-> 0, items |-> <<>>]

\* createContact: response.contact, response.payload?.contact,
\* response.payload, response.id ? response, else throw
createContactShape(raw) ==
  IF raw.named # 0 THEN Object(raw.named)
  ELSE IF raw.payloadNamed # 0 THEN Object(raw.payloadNamed)
  ELSE IF raw.payloadId # 0 THEN Object(raw.payloadId)
  ELSE IF raw.id # 0 THEN Object(raw.id)
  ELSE Unexpected

\* createConversation: response.conversation, response.payload?.conversation,
\* response.id ? response, else throw
createConversationShape(raw) ==
  IF raw.named # 0 THEN Object(raw.named)
  ELSE IF raw.payloadNamed # 0 THEN Object(raw.payloadNamed)
  ELSE IF raw.id # 0 THEN Object(raw.id)
  ELSE Unexpected

\* updateContact and createMessage: response.contact (message),
\* response.payload?.contact (message), else the response itself
returnResponseShape(raw) ==
  IF raw.named # 0 THEN Object(raw.named)
  ELSE IF raw.payloadNamed # 0 THEN Object(raw.payloadNamed)
  ELSE [kind |-> "raw", id |-> raw.id, items |-> <<>>]

ObjectOps == {"createContact", "createConversation", "updateContact", "createMessage"}

ShapeInit ==
  /\ contacts = <<>>
  /\ convs = <<>>
  /\ msgs = <<>>
  /\ apiVersion \in {v \in ApiVersions : v.wrapper = "array"}
  /\ faults = 0
  /\ arrived = 0
  /\ hs = [h \in Handlers |-> IdleHandler]
  /\ ledger = <<>>
  /\ wh = [k \in Hooks |-> IdleHook]
  /\ sent = <<>>
  /\ env = NoEnv
  /\ sc = <<>>
  /\ probe \in { [op |-> "none", raw |-> r, result |-> Unexpected] :
                    r \in ObjectAnswers \cup ListAnswers }
  /\ rq = <<>>
  /\ consumers = <<>>
  /\ clock = 0
  /\ uuids = {}

\* operation op normalises the success answer it received
Normalise(op) ==
  /\ probe.op = "none"
  /\ (op = "listConversations") <=> (probe.raw \in ListAnswers)
  /\ probe' = [probe EXCEPT
                  !.op = op,
                  !.result =
                    CASE op = "createContact" -> createContactShape(probe.raw)
                      [] op = "createConversation" -> createConversationShape(probe.raw)
                      [] op \in {"updateContact", "createMessage"} ->
                           returnResponseShape(probe.raw)
                      [] op = "listConversations" ->
                           [kind |-> "list", id |-> 0,
                            items |-> parseConversations(probe.raw)]]
  /\ UNCHANGED <<contacts, convs, msgs, apiVersion, faults, arrived, hs, ledger, wh, sent,
                 env, sc, rq, consumers, clock, uuids>>

ShapeNext == \E op \in ObjectOps \cup {"listConversations"} : Normalise(op)

ShapeSpec == ShapeInit /\ [][ShapeNext]_vars

(* ------------------------- ChatwootAPI.request ------------------------ *)

\* A run of request(): pending while fetch is in flight, reading while
\* response.text() is, then returned (data), rejected (err with the status),
\* failed (fetch's own error) or aborted (the abort at the timeout). status
\* and body are the answer's, once its head has arrived.
IdleRequest ==
  [pc |-> "idle", status |-> 0, body |-> "none", data |-> "none", err |-> NoErr]

RequestInit ==
  /\ contacts = <<>>
  /\ convs = <<>>
  /\ msgs = <<>>
  /\ apiVersion \in {v \in ApiVersions : v.wrapper = "array"}
  /\ faults = 0
  /\ arrived = 0
  /\ hs = [h \in Handlers |-> IdleHandler]
  /\ ledger = <<>>
  /\ wh = [k \in Hooks |-> IdleHook]
  /\ sent = <<>>
  /\ env = NoEnv
  /\ sc = <<>>
  /\ probe = <<>>
  /\ rq = [r \in Requests |-> IdleRequest]
  /\ consumers = <<>>
  /\ clock = 0
  /\ uuids = {}

\* a timer that is cleared as soon as fetch resolves
TimeoutArmedUntilHead(rec) == rec.pc = "pending"

\* setTimeout(() => controller.abort(), timeout) ... finally { clearTimeout }:
\* the timer is armed from the call of fetch to the end of the try block
TimeoutArmed(rec) == rec.pc \in {"pending", "reading"}

\* const controller = new AbortController(); setTimeout(...); fetch(url, ...)
RequestStart(r) ==
  /\ rq[r].pc = "idle"
  /\ rq' = [rq EXCEPT ![r] = [rq[r] EXCEPT !.pc = "pending"]]
  /\ UNCHANGED <<contacts, convs, msgs, apiVersion, faults, arrived, hs, ledger, wh, sent,
                 env, sc, probe, consumers, clock, uuids>>

\* fetch resolves with the head of the answer; response.text() begins
HeadArrives(r, status, body) ==
  /\ rq[r].pc = "pending"
  /\ rq' = [rq EXCEPT ![r] = [rq[r] EXCEPT !.pc = "reading", !.status = status,
                                            !.body = body]]
  /\ UNCHANGED <<contacts, convs, msgs, apiVersion, faults, arrived, hs, ledger, wh, sent,
                 env, sc, probe, consumers, clock, uuids>>

\* response.text() resolves: data = text ? JSON.parse(text) : {} (a text
\* that does not parse leaves {}); !response.ok throws the error with the
\* status, otherwise data is returned
BodyRead(r) ==
  /\ rq[r].pc = "reading"
  /\ LET data == IF rq[r].body = "json" THEN "json" ELSE "{}"
     IN rq' = [rq EXCEPT ![r] =
                 IF rq[r].status \in 200..299
                 THEN [rq[r] EXCEPT !.pc = "returned", !.data = data]
                 ELSE [rq[r] EXCEPT !.pc = "rejected",
                                    !.err = RejectedErr(rq[r].status, "none")]]
  /\ UNCHANGED <<contacts, convs, msgs, apiVersion, faults, arrived, hs, ledger, wh, sent,
                 env, sc, probe, consumers, clock, uuids>>

\* fetch or response.text() rejects with the transport's own error (no
\* connection, connection reset); request() lets it through
FetchFails(r) ==
  /\ rq[r].pc \in {"pending", "reading"}
  /\ rq' = [rq EXCEPT ![r] = [rq[r] EXCEPT !.pc = "failed",
                                            !.err = [kind |-> "network", status |-> 0,
                                                     about |-> "none"]]]
  /\ UNCHANGED <<contacts, convs, msgs, apiVersion, faults, arrived, hs, ledger, wh, sent,
                 env, sc, probe, consumers, clock, uuids>>

\* the timer fires: controller.abort() rejects the pending fetch or body
\* read with an AbortError, which request() lets through
TimerFires(r) ==
  /\ TimeoutArmed(rq[r])
  /\ rq' = [rq EXCEPT ![r] = [rq[r] EXCEPT !.pc = "aborted", !.err = TimeoutErr]]
  /\ UNCHANGED <<contacts, convs, msgs, apiVersion, faults, arrived, hs, ledger, wh, sent,
                 env, sc, probe, consumers, clock, uuids>>

RequestNext ==
  \E r \in Requests :
    \/ RequestStart(r)
    \/ \E status \in {200, 401, 422}, body \in {"json", "text", "empty"} :
         HeadArrives(r, status, body)
    \/ BodyRead(r)
    \/ FetchFails(r)
    \/ TimerFires(r)

\* the remote may never answer; a timer that is armed fires
RequestSpec ==
  /\ RequestInit
  /\ [][RequestNext]_vars
  /\ \A r \in Requests : WF_vars(TimerFires(r))

(* --------------------------- two conversations ------------------------ *)
\* The bridge starts against the remote that an earlier run left behind: a
\* conversation of another sender, and two conversations of one sender, the
\* tagged one and the untagged one of a last-resort creation.

TieSender == Min(Senders)

TieInit ==
  /\ contacts = << [identifier |-> IdentityKey(NumSenders + 1), name |-> <<"John">>,
                     phone_number |-> NoStr],
                   [identifier |-> IdentityKey(TieSender), name |-> <<"John">>,
                     phone_number |-> NoStr] >>
  /\ convs = << NewConversation([contact_id |-> 1, inbox_id |-> InboxId,
                                  source_id |-> IdentityKey(NumSenders + 1),
                                  attr_source_id |-> IdentityKey(NumSenders + 1)]),
                NewConversation([contact_id |-> 2, inbox_id |-> InboxId,
                                  source_id |-> IdentityKey(TieSender),
                                  attr_source_id |-> IdentityKey(TieSender)]),
                NewConversation([contact_id |-> 2, inbox_id |-> InboxId,
                                  source_id |-> NoStr,
                                  attr_source_id |-> IdentityKey(TieSender)]) >>
  /\ msgs = <<>>
  /\ apiVersion \in ApiVersions
  /\ faults = 0
  /\ arrived = 0
  /\ hs = [h \in Handlers |-> IdleHandler]
  /\ ledger = <<>>
  /\ wh = [k \in Hooks |-> IdleHook]
  /\ sent = <<>>
  /\ env = NoEnv
  /\ RestIdle

TieNext ==
  \/ \E p \in Profiles, t \in Texts : Receive(TieSender, p, t)
  \/ \E h \in Handlers :
       \/ ContactPost(h)
       \/ ContactSearch(h)
       \/ ContactByIdentifier(h)
       \/ ContactUpdate(h)
       \/ ListInbox(h)
       \/ Create(h)
       \/ Search(h)
       \/ Deep(h)
       \/ DeepDetail(h)
       \/ ByContact(h)
       \/ ByContactDetail(h)
       \/ Fallback(h)
       \/ Message(h)

TieSpec == TieInit /\ [][TieNext]_vars

(* ------------------------ creation rejections ------------------------- *)
\* The busy inbox again, with a remote that can also reject a creation
\* request for reasons other than a taken source tag.

\* a 422 about another field, a server error whose text names source_id,
\* the abort at the timeout
CreateRejections == { RejectedErr(422, "inbox_id"), RejectedErr(500, "source_id"), TimeoutErr }

\* POST /conversations with the source tag is answered with a rejection
CreateRejected(h, e) ==
  /\ hs[h].pc = "create"
  /\ hs' = [hs EXCEPT ![h] =
              AfterCreateError([hs[h] EXCEPT !.nCreate = hs[h].nCreate + 1], e)]
  /\ UNCHANGED <<contacts, convs, msgs, apiVersion, faults, arrived, ledger, wh, sent, outside>>

RejectNext ==
  \/ BusyNext
  \/ \E h \in Handlers, e \in CreateRejections : CreateRejected(h, e)

RejectSpec == BusyInit /\ [][RejectNext]_vars

(* ----------------------------- a slow remote -------------------------- *)
\* Both forwarders at once against a remote that answers every call it
\* answers with success, but may take any time over a call made for the
\* slow sender, up to never answering it.

\* the sender whose calls the remote is slow to answer
SlowSender == Min(Senders)

StallInit ==
  /\ contacts = <<>>
  /\ convs = <<>>
  /\ msgs = <<>>
  /\ apiVersion \in {v \in ApiVersions : v.wrapper = "payload"}
  /\ faults = MaxFaults
  /\ arrived = 0
  /\ hs = [h \in Handlers |-> IdleHandler]
  /\ ledger = <<>>
  /\ wh = [k \in Hooks |-> IdleHook]
  /\ sent = <<>>
  /\ env = NoEnv
  /\ RestIdle

\* the events of an agent's reply in a conversation the remote holds, with
\* the tag in the payload or with the conversation id alone
StallBodies ==
  { BodyOf(c, place, "outgoing", <<"Hello">>) :
      c \in {i \in 1..Len(convs) : convs[i].source_id # NoStr}, place \in {"source_id", "none"} }

\* the remote call a handler run is suspended in is answered; with every
\* answer a success the deep scan finds what the list search missed
HandlerStep(h) ==
  \/ ContactPost(h)
  \/ ContactSearch(h)
  \/ ContactUpdate(h)
  \/ ListInbox(h)
  \/ Create(h)
  \/ Search(h)
  \/ Deep(h)
  \/ DeepDetail(h)
  \/ Message(h)

\* the call a webhook run is suspended in is answered
HookStep(k) == WebhookFetch(k) \/ WebhookSend(k)

\* the sender a webhook run's event is about
SenderOfHook(k) ==
  IF wh[k].body.id = 0 THEN NoStr ELSE contacts[convs[wh[k].body.id].contact].identifier

StallNext ==
  \/ \E s \in Senders, p \in Profiles, t \in Texts : Receive(s, p, t)
  \/ \E h \in Handlers : HandlerStep(h)
  \/ \E k \in Hooks, req \in WebhookRequests, body \in StallBodies :
       WebhookReceive(k, req, body)
  \/ \E k \in Hooks : HookStep(k)

\* the transport delivers the messages it has; every call is answered in
\* the end, except the calls made for the slow sender
StallSpec ==
  /\ StallInit
  /\ [][StallNext]_vars
  /\ \A s \in Senders \ {SlowSender} :
       WF_vars(\E p \in Profiles, t \in Texts : Receive(s, p, t))
  /\ \A h \in Handlers : WF_vars(hs[h].sender # SlowSender /\ HandlerStep(h))
  /\ \A k \in Hooks :
       WF_vars(SenderOfHook(k) # IdentityKey(SlowSender) /\ HookStep(k))

(* ------------------------- groups and channels ------------------------ *)
\* The message handler from its first line: the chat a message came from and
\* the CHATWOOT_IGNORE_GROUP flag.

\* message.isGroup / message.isChannel of a private chat, a group, a channel
Origins == {"private", "group", "channel"}

\* the values CHATWOOT_IGNORE_GROUP is deployed with
GroupEnvs ==
  {[NoEnv EXCEPT !.CHATWOOT_IGNORE_GROUP = v] : v \in {NoStr, <<"true">>, <<"false">>}}

\* a check that would look at message.isGroup only
IsGroupOnly(origin) == origin = "group"

\* const isGroup = message.isGroup || message.isChannel
IsGroup(origin) == origin \in {"group", "channel"}

\* const ignoreGroups = process.env.CHATWOOT_IGNORE_GROUP === 'true'
IgnoreGroups == env.CHATWOOT_IGNORE_GROUP = <<"true">>

GroupInit ==
  /\ contacts = <<>>
  /\ convs = <<>>
  /\ msgs = <<>>
  /\ apiVersion \in {v \in ApiVersions : v.wrapper = "payload"}
  /\ faults = 0
  /\ arrived = 0
  /\ hs = [h \in Handlers |-> IdleHandler]
  /\ ledger = <<>>
  /\ wh = [k \in Hooks |-> IdleHook]
  /\ sent = <<>>
  /\ env \in GroupEnvs
  /\ RestIdle

\* the chat transport delivers a text message of a private chat, a group or
\* a channel: if (isGroup && ignoreGroups) return; otherwise the handler reads
\* the sender's profile and starts forwardToCharwoot
GroupReceive(s, p, t, origin) ==
  /\ StreamOpen
  /\ arrived < MaxMsgs
  /\ arrived' = arrived + 1
  /\ hs' = [hs EXCEPT ![arrived + 1] =
              IF IsGroup(origin) /\ IgnoreGroups
              THEN [IdleHandler EXCEPT !.pc = "skipped", !.origin = origin,
                      !.before = {g \in Handlers : hs[g].pc \in {"done", "failed"}}]
              ELSE [IdleHandler EXCEPT !.pc = "contactPost", !.sender = s, !.profile = p,
                      !.text = t, !.origin = origin,
                      !.before = {g \in Handlers : hs[g].pc \in {"done", "failed"}}]]
  /\ UNCHANGED <<contacts, convs, msgs, apiVersion, faults, ledger, wh, sent, outside>>

GroupNext ==
  \/ \E s \in Senders, p \in Profiles, t \in Texts, origin \in Origins :
       GroupReceive(s, p, t, origin)
  \/ \E h \in Handlers :
       \/ ContactPost(h)
       \/ ContactSearch(h)
       \/ ContactByIdentifier(h)
       \/ ContactUpdate(h)
       \/ ListInbox(h)
       \/ Create(h)
       \/ Search(h)
       \/ Deep(h)
       \/ DeepDetail(h)
       \/ ByContact(h)
       \/ ByContactDetail(h)
       \/ Fallback(h)
       \/ Message(h)

GroupSpec == GroupInit /\ [][GroupNext]_vars

(* --------------------------- failure ledger --------------------------- *)

Consumers == 1..NumConsumers

\* the ids crypto.randomUUID() can return
Uuids == 1..MaxRecords

\* what a forward that failed would hand to recordFailedMessage
LedgerEntries == {[senderId |-> SenderIdStr(s), error |-> TimeoutErr] : s \in Senders}

\* undefined: stmt.get() found no row
NoRow == [id |-> 0, created_at |-> 0, senderId |-> NoStr, error |-> NoErr]

\* a consumer holds the row it fetched while it replays it; deleted keeps the
\* ids it has passed to deleteFailedMessage
IdleConsumer == [pc |-> "idle", row |-> NoRow, deleted |-> {}]

LedgerInit ==
  /\ contacts = <<>>
  /\ convs = <<>>
  /\ msgs = <<>>
  /\ apiVersion \in {v \in ApiVersions : v.wrapper = "array"}
  /\ faults = 0
  /\ arrived = 0
  /\ hs = [h \in Handlers |-> IdleHandler]
  /\ ledger = <<>>
  /\ wh = [k \in Hooks |-> IdleHook]
  /\ sent = <<>>
  /\ env = NoEnv
  /\ sc = <<>>
  /\ probe = <<>>
  /\ rq = <<>>
  /\ consumers = [c \in Consumers |-> IdleConsumer]
  /\ clock = 0
  /\ uuids = {}

\* ORDER BY created_at DESC LIMIT 1
fetchNewestFailedMessage ==
  IF ledger = <<>> THEN NoRow
  ELSE LET newest == {i \in 1..Len(ledger) :
                        \A j \in 1..Len(ledger) : ledger[j].created_at <= ledger[i].created_at}
       IN ledger[Min(newest)]

\* SELECT ... FROM failed_messages ORDER BY created_at ASC LIMIT 1, walked
\* along idx_failed_messages_created_at: the least created_at, and among
\* equal ones the least rowid; undefined when the table is empty
fetchNextFailedMessage ==
  IF ledger = <<>> THEN NoRow
  ELSE LET oldest == {i \in 1..Len(ledger) :
                        \A j \in 1..Len(ledger) : ledger[i].created_at <= ledger[j].created_at}
       IN ledger[Min(oldest)]

\* DELETE FROM failed_messages WHERE id = ?
deleteFailedMessage(id) == SelectSeq(ledger, LAMBDA row : row.id # id)

\* time passes: a later new Date() reads a later millisecond
ClockTicks ==
  /\ clock < MaxClock
  /\ clock' = clock + 1
  /\ UNCHANGED <<contacts, convs, msgs, apiVersion, faults, arrived, hs, ledger, wh, sent,
                 env, sc, probe, rq, consumers, uuids>>

\* a call of recordFailedMessage(entry): a fresh id, the clock's reading
FailureRecorded(entry, id) ==
  /\ Cardinality(uuids) < MaxRecords
  /\ id \notin uuids
  /\ ledger' = recordFailedMessage(entry, id, clock)
  /\ uuids' = uuids \cup {id}
  /\ UNCHANGED <<contacts, convs, msgs, apiVersion, faults, arrived, hs, wh, sent,
                 env, sc, probe, rq, consumers, clock>>

\* a consumer calls fetchNextFailedMessage() and, given a row, starts to
\* replay it
ConsumerFetches(c) ==
  /\ consumers[c].pc = "idle"
  /\ fetchNextFailedMessage # NoRow
  /\ consumers' = [consumers EXCEPT ![c] = [consumers[c] EXCEPT
                      !.pc = "replaying", !.row = fetchNextFailedMessage]]
  /\ UNCHANGED <<contacts, convs, msgs, apiVersion, faults, arrived, hs, ledger, wh, sent,
                 env, sc, probe, rq, clock, uuids>>

\* the replay succeeded: the consumer calls deleteFailedMessage(row.id)
ConsumerDeletes(c) ==
  /\ consumers[c].pc = "replaying"
  /\ ledger' = deleteFailedMessage(consumers[c].row.id)
  /\ consumers' = [consumers EXCEPT ![c] = [consumers[c] EXCEPT
                      !.pc = "idle", !.row = NoRow,
                      !.deleted = consumers[c].deleted \cup {consumers[c].row.id}]]
  /\ UNCHANGED <<contacts, convs, msgs, apiVersion, faults, arrived, hs, wh, sent,
                 env, sc, probe, rq, clock, uuids>>

\* the replay failed: the row stays in the table
ConsumerGivesUp(c) ==
  /\ consumers[c].pc = "replaying"
  /\ consumers' = [consumers EXCEPT ![c] = [consumers[c] EXCEPT
                      !.pc = "idle", !.row = NoRow]]
  /\ UNCHANGED <<contacts, convs, msgs, apiVersion, faults, arrived, hs, ledger, wh, sent,
                 env, sc, probe, rq, clock, uuids>>

LedgerNext ==
  \/ ClockTicks
  \/ \E entry \in LedgerEntries, id \in Uuids : FailureRecorded(entry, id)
  \/ \E c \in Consumers :
       \/ ConsumerFetches(c)
       \/ ConsumerDeletes(c)
       \/ ConsumerGivesUp(c)

LedgerSpec == LedgerInit /\ [][LedgerNext]_vars

(* ------------------------------ vocabulary ---------------------------- *)

\* the Identity Key a remote conversation belongs to: its contact's identifier
KeyOfConv(i) == contacts[convs[i].contact].identifier

ConvsOfKey(k, inbox) == {i \in 1..Len(convs) : convs[i].inbox = inbox /\ KeyOfConv(i) = k}

ContactsOfKey(k) == {i \in 1..Len(contacts) : contacts[i].identifier = k}

\* createConversation of handler h has returned a conversation
Returned(h) == hs[h].conv # 0

\* createConversation of handler h has ended, by a return or by a throw
ResolverEnded(h) == hs[h].snap.entered /\ hs[h].pc \in {"message", "done", "failed"}

ResolverPcs ==
  {"listInbox", "create", "search", "deep", "deepDetail", "byContact", "byContactDetail", "fallback"}

SearchPcs == {"search", "deep", "deepDetail", "byContact", "byContactDetail"}

\* this step is a remote call of handler h that ended in a fault
FaultStepOf(h) == faults' = faults + 1 /\ hs'[h] # hs[h]

(* -------------------------------- claims ------------------------------ *)

\* C1: in every reachable state the remote holds at most one conversation per
\* Identity Key per inbox.
C1_AtMostOneConversationPerKey ==
  \A s \in Senders : Cardinality(ConvsOfKey(IdentityKey(s), InboxId)) <= 1

\* C2: two createConversation calls for the same new (key, inbox) that both
\* found no conversation and both sent a creation, the second creation being
\* answered with a source-tag Conflict, return the same conversation id.
C2_RaceConverges ==
  \A h1, h2 \in Handlers :
    ( /\ h1 # h2
      /\ hs[h1].sender = hs[h2].sender
      /\ hs[h1].snap.existing = 0 /\ hs[h2].snap.existing = 0
      /\ ~hs[h1].listErr /\ ~hs[h2].listErr
      /\ hs[h1].path = "created"
      /\ hs[h2].createErr = SourceConflict
      /\ ResolverEnded(h2) )
    => (Returned(h2) /\ hs[h2].conv = hs[h1].conv)

\* C3: two createConversation calls made one after the other with the same
\* (key, inbox) and contact return the same conversation id.
C3_SequentialSameId ==
  \A h1, h2 \in Handlers :
    ( /\ h1 \in hs[h2].snap.prior
      /\ hs[h1].sender = hs[h2].sender
      /\ hs[h1].contactId = hs[h2].contactId
      /\ Returned(h2) )
    => hs[h2].conv = hs[h1].conv

\* C4: every conversation createConversation returns for key k has source tag
\* k, whichever path returned it.
C4_ReturnedHasTag ==
  \A h \in Handlers :
    Returned(h) => convs[hs[h].conv].source_id = IdentityKey(hs[h].sender)

\* C5: when a conversation of the contact already exists in the inbox as
\* createConversation begins, the call returns it and sends no creation request.
C5_NoCreateWhenExists ==
  \A h \in Handlers :
    hs[h].snap.existing # 0 =>
      /\ hs[h].nCreate = 0
      /\ ResolverEnded(h) =>
           (Returned(h) /\ hs[h].conv \in ConvsOfContact(hs[h].contactId, InboxId))

\* C6: when the sender's earlier conversation in the inbox is resolved as the
\* next message is resolved, createConversation returns that conversation and
\* creates none.
C6_ClosedReused ==
  \A h \in Handlers :
    (hs[h].snap.closed /\ ResolverEnded(h)) =>
      /\ Returned(h) => hs[h].conv = hs[h].snap.existing
      /\ hs[h].path \notin {"created", "fallback"}

\* C7: a createConversation call whose creation was answered with a source-tag
\* Conflict never ends by throwing that Conflict.
C7_ConflictNeverSurfaced ==
  \A h \in Handlers :
    ~( /\ hs[h].createErr = SourceConflict
       /\ hs[h].pc = "failed"
       /\ ~Returned(h)
       /\ hs[h].err = SourceConflict )

\* C8: the search after a Conflict never fails the call: when it ends without
\* a match the last resort follows, which is one further creation request,
\* sent only after a Conflict, that omits the source tag; answered, it yields
\* a conversation without source tag for the contact and inbox, and the call
\* returns that conversation.
C8_FallbackCreatesUntagged ==
  [][\A h \in Handlers :
       /\ (hs[h].pc \in SearchPcs /\ hs'[h] # hs[h]) =>
             hs'[h].pc \in SearchPcs \cup {"fallback", "message"}
       /\ (hs[h].pc = "fallback" /\ hs'[h] # hs[h]) =>
             /\ hs[h].createErr = SourceConflict
             /\ hs[h].nCreate = 1 /\ hs'[h].nCreate = 2
             /\ ~FaultStepOf(h) =>
                  /\ Len(convs') = Len(convs) + 1
                  /\ convs'[Len(convs')] =
                       [contact |-> hs[h].contactId, inbox |-> InboxId, source_id |-> NoStr,
                        attr |-> IdentityKey(hs[h].sender), status |-> "open"]
                  /\ hs'[h].conv = Len(convs')
                  /\ hs'[h].pc = "message"]_vars

\* a createConversation call whose list search, deep scan and contact-filtered
\* search all ended without a match took the last resort and returned what it
\* created
C8_Witness ==
  \E h \in Handlers :
    /\ hs[h].path = "fallback" /\ hs[h].missed = 3
    /\ Returned(h) /\ convs[hs[h].conv].source_id = NoStr

\* C9: a fault on a remote call of createConversation ends the call with that
\* error: no further remote call, no swallowing.
C9_FaultsPropagate ==
  [][\A h \in Handlers :
       (hs[h].pc \in ResolverPcs /\ FaultStepOf(h)) =>
          (hs'[h].pc = "failed" /\ hs'[h].err \in Faults)]_vars

\* C10: after the same message was forwarded twice in sequence for a sender,
\* the remote holds exactly one contact and exactly one conversation for the
\* sender's key.
C10_ForwardTwiceOneEach ==
  \A h1, h2 \in Handlers :
    ( /\ h1 \in hs[h2].before
      /\ hs[h1].pc = "done" /\ hs[h2].pc = "done"
      /\ hs[h1].sender = hs[h2].sender
      /\ hs[h1].profile = hs[h2].profile /\ hs[h1].text = hs[h2].text )
    => /\ Cardinality(ContactsOfKey(IdentityKey(hs[h1].sender))) = 1
       /\ Cardinality(ConvsOfKey(IdentityKey(hs[h1].sender), InboxId)) = 1

\* the awaits of createContact
ContactPcs == {"contactPost", "contactSearch", "contactByIdentifier"}

\* the contact as the remote stores it equals the live profile of handler h
StoredEqualsLive(c, h) ==
  /\ c.name = FullName(hs[h].profile)
  /\ c.phone_number = hs[h].profile.phone

\* this step takes handler h to the contact-update request
EnteredUpdate(h) == hs[h].pc # "contactUpdate" /\ hs'[h].pc = "contactUpdate"

\* C11: at most one contact exists per Identity Key, and a forward whose
\* contact creation the remote rejected as a duplicate obtains the contact of
\* that key, the same id every other forward of the sender obtained; it ends
\* without a contact only if both of its lookup requests threw.
C11_RaceSameContact ==
  /\ \A s \in Senders : Cardinality(ContactsOfKey(IdentityKey(s))) <= 1
  /\ \A h \in Handlers :
       (hs[h].contactErr = IdentifierConflict /\ hs[h].pc \notin ContactPcs) =>
         \/ /\ hs[h].contactId # 0
            /\ contacts[hs[h].contactId].identifier = IdentityKey(hs[h].sender)
            /\ \A g \in Handlers :
                 (hs[g].sender = hs[h].sender /\ hs[g].contactId # 0)
                   => hs[g].contactId = hs[h].contactId
         \/ /\ hs[h].pc = "failed" /\ hs[h].contactId = 0
            /\ hs[h].lookupFaults = 2

\* two forwards of one new sender ran concurrently, the second contact
\* creation was rejected as a duplicate, both hold the same contact id
C11_Witness ==
  \E h1, h2 \in Handlers :
    /\ h1 # h2 /\ hs[h1].sender = hs[h2].sender
    /\ h1 \notin hs[h2].before /\ h2 \notin hs[h1].before
    /\ hs[h1].contactErr = NoErr /\ hs[h2].contactErr = IdentifierConflict
    /\ hs[h1].contactId # 0 /\ hs[h2].contactId = hs[h1].contactId
    /\ Cardinality(ContactsOfKey(IdentityKey(hs[h1].sender))) = 1

\* C12: createContact answers a conflict on creation by the lookups by
\* identifier (search, then list by identifier); a lookup that is answered
\* with the contact makes createContact return that contact; when neither
\* yields a contact createContact throws the conflict error.
C12_ConflictThenSearch ==
  [][\A h \in Handlers :
       LET key == IdentityKey(hs[h].sender)
           found == RemoteContactsByIdentifier(key)
           moved == hs'[h] # hs[h]
       IN /\ (hs[h].pc = "contactPost" /\ moved /\ ~FaultStepOf(h) /\ IdentifierTaken(key))
               => (hs'[h].pc = "contactSearch" /\ hs'[h].contactErr = IdentifierConflict)
          /\ (hs[h].pc \in {"contactSearch", "contactByIdentifier"} /\ moved)
               => /\ hs[h].contactErr = IdentifierConflict
                  /\ (~FaultStepOf(h) /\ Len(found) > 0)
                       => (hs'[h].contactId = found[1] /\ hs'[h].pc \in {"contactUpdate", "listInbox"})
          /\ (hs[h].pc = "contactSearch" /\ moved /\ hs'[h].contactId = 0)
               => hs'[h].pc = "contactByIdentifier"
          /\ (hs[h].pc = "contactByIdentifier" /\ moved /\ hs'[h].contactId = 0)
               => (hs'[h].pc = "failed" /\ hs'[h].err = IdentifierConflict)]_vars

\* a createContact whose creation met a conflict returned the contact its
\* lookup found
C12_Witness ==
  \E h \in Handlers :
    /\ hs[h].contactErr = IdentifierConflict
    /\ hs[h].pc \in {"contactUpdate", "listInbox"}
    /\ hs[h].contactId \in ContactsOfKey(IdentityKey(hs[h].sender))

\* C13: every failed inbound forward has a Failure Record in the ledger that
\* holds its sender identity and its error.
C13_FailureRecorded ==
  \A h \in Handlers :
    hs[h].pc = "failed" =>
      \E i \in 1..Len(ledger) :
        /\ ledger[i].senderId = SenderIdStr(hs[h].sender)
        /\ ledger[i].error = hs[h].err

\* C14: an error of a forward never leaves the message handler: the run
\* ends failed inside it, the event stream stays open and, while messages
\* remain, the next one can be received.
C14_FailureStaysInHandler ==
  \A h \in Handlers :
    hs[h].err # NoErr =>
      /\ hs[h].pc = "failed"
      /\ StreamOpen
      /\ arrived < MaxMsgs =>
           ENABLED (\E s \in Senders, p \in Profiles, t \in Texts : Receive(s, p, t))

\* a message that arrived after another message's forward had failed was
\* forwarded to its end
C14_Witness ==
  \E h1, h2 \in Handlers :
    /\ hs[h1].pc = "failed" /\ h1 \in hs[h2].before
    /\ hs[h2].pc = "done"

\* C15: after the successful forward of the only message of a sender, the
\* remote holds exactly one contact with the sender's key, name and phone,
\* exactly one conversation of the key, tagged with the key, and exactly one
\* message in it, incoming, with the original text.
C15_FirstForward ==
  \A h \in Handlers :
    (hs[h].pc = "done" /\ \A g \in Handlers \ {h} : hs[g].sender # hs[h].sender) =>
      LET k == IdentityKey(hs[h].sender)
          cs == ContactsOfKey(k)
          vs == ConvsOfKey(k, InboxId)
          ms == {i \in 1..Len(msgs) : msgs[i].conversation \in vs}
      IN /\ Cardinality(cs) = 1
         /\ \A c \in cs : StoredEqualsLive(contacts[c], h)
         /\ Cardinality(vs) = 1
         /\ \A v \in vs : convs[v].source_id = k /\ hs[h].conv = v
         /\ Cardinality(ms) = 1
         /\ \A i \in ms : msgs[i].message_type = "incoming" /\ msgs[i].content = hs[h].text

\* the only message of a sender named John Doe was forwarded to its end
C15_Witness ==
  \E h \in Handlers :
    /\ hs[h].pc = "done" /\ \A g \in Handlers \ {h} : hs[g].sender # hs[h].sender
    /\ FullName(hs[h].profile) = <<"John", " ", "Doe">>
    /\ \E i \in 1..Len(msgs) : msgs[i].conversation = hs[h].conv

\* C16: a forward goes to the contact-update request only when the contact
\* createContact returned differs from the live profile in name or phone.
C16_NoUpdateWhenEqual ==
  [][\A h \in Handlers :
       EnteredUpdate(h) => ~StoredEqualsLive(contacts'[hs'[h].contactId], h)]_vars

\* a forward found the existing contact equal to the live profile and went
\* on to the conversation without an update request
C16_Witness ==
  \E h \in Handlers :
    /\ hs[h].contactErr = IdentifierConflict /\ hs[h].contactId # 0
    /\ hs[h].pc = "listInbox"
    /\ hs[h].upd = [name |-> NoStr, phone |-> NoStr]
    /\ StoredEqualsLive(contacts[hs[h].contactId], h)

\* C17: when the contact createContact returned differs from the live
\* profile in its name only, the forward sends one update request, with the
\* new name and no phone; answered, it changes the stored name only, and the
\* forward goes on to the conversation.
C17_NameOnlyUpdate ==
  [][\A h \in Handlers :
       /\ ( /\ hs[h].pc \in ContactPcs /\ hs'[h].contactId # 0
            /\ contacts'[hs'[h].contactId].name # FullName(hs[h].profile)
            /\ contacts'[hs'[h].contactId].phone_number = hs[h].profile.phone )
            => /\ hs'[h].pc = "contactUpdate"
               /\ hs'[h].upd = [name |-> FullName(hs[h].profile), phone |-> NoStr]
       /\ (hs[h].pc = "contactUpdate" /\ hs'[h] # hs[h])
            => /\ hs'[h].pc = "listInbox"
               /\ (~FaultStepOf(h) /\ hs[h].upd.phone = NoStr)
                    => /\ contacts'[hs[h].contactId].name = hs[h].upd.name
                       /\ contacts'[hs[h].contactId].phone_number =
                            contacts[hs[h].contactId].phone_number]_vars

\* a contact stored as John was updated to John Doe by a request without
\* phone
C17_Witness ==
  \E h \in Handlers :
    /\ hs[h].contactErr = IdentifierConflict
    /\ hs[h].upd = [name |-> <<"John", " ", "Doe">>, phone |-> NoStr]
    /\ hs[h].pc = "listInbox"
    /\ contacts[hs[h].contactId].name = <<"John", " ", "Doe">>

\* the tag an event's conversation metadata carries, whichever field holds it
MetadataTag(body) == PayloadSourceId(body)

\* the tag a conversation detail carries, whichever known field holds it
DetailTag(id) == DetailSourceId(RemoteDetail(id))

\* C18: a webhook run fetches a conversation detail or sends a chat message
\* only for a valid event with direction "outgoing" and non-empty content.
C18_OnlyEligibleForwarded ==
  /\ \A k \in Hooks :
       (wh[k].pc \in {"fetch", "send"} \/ wh[k].nFetch > 0 \/ wh[k].nSend > 0) =>
          /\ wh[k].body.valid
          /\ wh[k].body.message_type = "outgoing"
          /\ wh[k].body.content # NoStr
  /\ Len(sent) <= Cardinality({k \in Hooks : wh[k].nSend > 0})

\* an incoming event whose metadata carries a telegram tag was handled with
\* no fetch and no send
C18_Witness ==
  \E k \in Hooks :
    /\ wh[k].pc = "done" /\ wh[k].body.message_type = "incoming"
    /\ wh[k].body.content # NoStr
    /\ StartsWithTelegram(wh[k].body.source_id)
    /\ wh[k].nFetch = 0 /\ wh[k].nSend = 0

\* C19: an eligible event whose conversation metadata carries a tag
\* telegram_<id> is handled with one send to <id> and no detail fetch.
C19_TagInMetadataNoFetch ==
  \A k \in Hooks :
    ( /\ wh[k].pc = "done" /\ wh[k].body.valid /\ Eligible(wh[k].body)
      /\ StartsWithTelegram(MetadataTag(wh[k].body)) )
    => /\ wh[k].nFetch = 0
       /\ wh[k].nSend = 1
       /\ wh[k].sourceId = MetadataTag(wh[k].body)

\* C20: an eligible event without a tag in its metadata but with a
\* conversation id is handled with one detail fetch; answered, the run takes
\* the tag the detail carries in any known field, and it sends if and only if
\* that tag starts with telegram_.
C20_FetchedTagDecides ==
  \A k \in Hooks :
    ( /\ wh[k].pc = "done" /\ wh[k].body.valid /\ Eligible(wh[k].body)
      /\ MetadataTag(wh[k].body) = NoStr /\ wh[k].body.id # 0 )
    => /\ wh[k].nFetch = 1
       /\ wh[k].nSend > 0 => StartsWithTelegram(wh[k].sourceId)
       /\ wh[k].fetched =>
            /\ wh[k].sourceId = DetailTag(wh[k].body.id)
            /\ (wh[k].nSend = 1) <=> StartsWithTelegram(DetailTag(wh[k].body.id))

\* what the webhook request of run k was answered with
Succeeded(k) == wh[k].pc = "done"
RejectedUnauthorized(k) == wh[k].pc = "unauthorized"
RejectedInvalid(k) == wh[k].pc = "rejected"

\* run k reached the forwarding logic: it parsed an eligible event
Forwarding(k) == wh[k].parsed /\ wh[k].body.valid /\ Eligible(wh[k].body)

\* C21: an eligible event whose recovered key is missing or does not start
\* with telegram_ is skipped: the run sends nothing, its request succeeds, and
\* every delivered message went to the id of some run's telegram_ key.
C21_NonTelegramSkipped ==
  /\ \A k \in Hooks :
       ( /\ Forwarding(k) /\ wh[k].pc \in {"send", "done"}
         /\ ~StartsWithTelegram(wh[k].sourceId) )
       => Succeeded(k) /\ wh[k].nSend = 0
  /\ \A i \in 1..Len(sent) :
       \E k \in Hooks : /\ StartsWithTelegram(wh[k].sourceId)
                        /\ sent[i].to = TelegramIdOf(wh[k].sourceId)

\* one eligible event whose fetched detail carries the tag of another channel
\* and one eligible event without any key were both skipped with success
C21_Witness ==
  \E k, j \in Hooks :
    /\ Forwarding(k) /\ Succeeded(k) /\ wh[k].fetched /\ wh[k].sourceId = OtherTag
    /\ wh[k].nSend = 0
    /\ Forwarding(j) /\ Succeeded(j) /\ wh[j].sourceId = NoStr /\ wh[j].body.id = 0
    /\ wh[j].nSend = 0

\* run k delivered its event's content to the id of its key
Delivered(k) ==
  \E i \in 1..Len(sent) :
    sent[i] = [to |-> TelegramIdOf(wh[k].sourceId), message |-> wh[k].body.content]

\* C22: a run whose conversation-detail fetch or telegram send failed ends
\* with a successful request, and every run that handled an eligible event
\* with a telegram_ key and had no failure of its own has delivered it,
\* whatever failed in other runs.
C22_ForwardFailureDropped ==
  \A k \in Hooks :
    /\ wh[k].fault # "none" => Succeeded(k)
    /\ ( /\ Forwarding(k) /\ wh[k].pc = "done" /\ wh[k].fault = "none"
         /\ StartsWithTelegram(wh[k].sourceId) )
       => wh[k].nSend = 1 /\ Delivered(k)

\* a call of one run failed and its request succeeded; an event that arrived
\* after that failure was delivered
C22_Witness ==
  /\ \E j, k \in Hooks :
       /\ wh[j].fault # "none" /\ Succeeded(j)
       /\ j \in wh[k].failedBefore
       /\ Forwarding(k) /\ Succeeded(k) /\ wh[k].fault = "none" /\ Delivered(k)

\* a webhook secret is configured
SecretConfigured == env.CHATWOOT_WEBHOOK_TOKEN # NoStr

\* run k was rejected before any forwarding logic: nothing parsed, fetched or sent
RejectedBeforeForwarding(k) ==
  /\ RejectedUnauthorized(k)
  /\ ~wh[k].parsed /\ wh[k].nFetch = 0 /\ wh[k].nSend = 0

C25_InvalidNeverForwarded ==
  /\ \A k \in Hooks :
       /\ (wh[k].parsed /\ ~wh[k].body.valid) => RejectedInvalid(k)
       /\ (RejectedInvalid(k) \/ RejectedUnauthorized(k)) =>
            /\ wh[k].nFetch = 0 /\ wh[k].nSend = 0
            /\ wh[k].sourceId = NoStr
  /\ Len(sent) <= Cardinality({k \in Hooks : Succeeded(k) /\ wh[k].nSend > 0})

\* an outgoing message of a tagged conversation in a body that fails the
\* schema was rejected as invalid, and another request as unauthorized
C25_Witness ==
  \E j, k \in Hooks :
    /\ RejectedInvalid(j) /\ ~wh[j].body.valid
    /\ wh[j].body.message_type = "outgoing" /\ wh[j].body.content # NoStr
    /\ StartsWithTelegram(wh[j].body.source_id)
    /\ wh[j].nFetch = 0 /\ wh[j].nSend = 0
    /\ RejectedUnauthorized(k) /\ wh[k].nFetch = 0 /\ wh[k].nSend = 0

\* C24: a run of the direct-send endpoint resolves a peer or sends a chat
\* message only when a bearer token is configured and the request's
\* Authorization header is "Bearer " followed by exactly that token; with no
\* token configured every request is refused; every delivered message belongs
\* to a run that sent.
C24_DirectSendNeedsToken ==
  /\ \A c \in Calls :
       /\ (sc[c].pc \in {"resolve", "send", "done", "failed"} \/ sc[c].nSend > 0) =>
            /\ env.API_BEARER_TOKEN # NoStr
            /\ sc[c].authorization = <<"Bearer ">> \o env.API_BEARER_TOKEN
       /\ (env.API_BEARER_TOKEN = NoStr /\ sc[c].pc # "idle") =>
            sc[c].pc = "refused" /\ sc[c].nSend = 0
  /\ Len(sent) <= Cardinality({c \in Calls : sc[c].nSend > 0})
  /\ env.API_BEARER_TOKEN = NoStr => sent = <<>>

\* with a token configured, a request with exactly that token was served and
\* requests with another token, with the token after extra white space and
\* without scheme were rejected
C24_Witness ==
  /\ env.API_BEARER_TOKEN # NoStr
  /\ \E c, d \in Calls :
       /\ sc[c].pc = "done" /\ Len(sent) = 1
       /\ sc[c].authorization = <<"Bearer ">> \o env.API_BEARER_TOKEN
       /\ sc[d].pc = "unauthorized"
       /\ sc[d].authorization \in {<<"Bearer ", "wrong">>, <<"Bearer ", " ", "s3cret">>, <<"s3cret">>}

\* with no token configured, a request carrying a bearer token and a request
\* without credentials were both refused
C24_RefusedWitness ==
  /\ env.API_BEARER_TOKEN = NoStr
  /\ \E c, d \in Calls :
       /\ sc[c].pc = "refused" /\ sc[c].authorization = <<"Bearer ", "s3cret">>
       /\ sc[d].pc = "refused" /\ sc[d].authorization = NoStr

\* the ids at the places operation op knows, in its priority order
KnownPlaces(op, raw) ==
  CASE op = "createContact" -> <<raw.named, raw.payloadNamed, raw.payloadId, raw.id>>
    [] op = "createConversation" -> <<raw.named, raw.payloadNamed, raw.id>>
    [] op \in {"updateContact", "createMessage"} -> <<raw.named, raw.payloadNamed, raw.id>>

\* C26: every Directory Client operation hands out the object at the first
\* of its known places that holds one (a list: the items under a known
\* wrapper), and fails with the unexpected-response error when a success
\* answer holds nothing at any known place.
C26_UnknownShapeFails ==
  probe.op # "none" =>
    IF probe.op = "listConversations"
    THEN IF \E k \in 1..Len(KnownWrappers) : KnownWrappers[k] = probe.raw.wrapper
         THEN probe.result.kind = "list" /\ probe.result.items = probe.raw.items
         ELSE probe.result.kind = "error"
    ELSE LET places == KnownPlaces(probe.op, probe.raw)
             hits == {i \in 1..Len(places) : places[i] # 0}
         IN IF hits = {} THEN probe.result.kind = "error"
            ELSE probe.result.kind # "error" /\ probe.result.id = places[Min(hits)]

\* request r is in flight; it has ended
InFlight(r) == rq[r].pc \in {"pending", "reading"}
Ended(r) == rq[r].pc \in {"returned", "rejected", "failed", "aborted"}

\* C27 as stated: a request that has ended returned data, failed as Rejected
\* or was abandoned at its timeout.
C27_ThreeOutcomes ==
  \A r \in Requests : Ended(r) => rq[r].pc \in {"returned", "rejected", "aborted"}

\* C27 amended: every request in flight ends; it ends with data, with a
\* Rejected error that carries the non-2xx status, with the transport's own
\* error or, abandoned at its timeout, with the Timeout error; the Timeout
\* error and the transport's error carry no status, a Rejected error does.
C27_RequestEnds ==
  /\ \A r \in Requests : InFlight(r) ~> Ended(r)
  /\ [](\A r \in Requests :
          /\ rq[r].pc = "returned" => rq[r].status \in 200..299 /\ rq[r].err = NoErr
          /\ rq[r].pc = "rejected" =>
               /\ rq[r].err.kind = "rejected" /\ rq[r].err.status = rq[r].status
               /\ rq[r].status \notin 200..299 /\ rq[r].err.status # 0
          /\ rq[r].pc = "aborted" => rq[r].err = TimeoutErr /\ rq[r].err.status = 0
          /\ rq[r].pc = "failed" => rq[r].err.kind = "network" /\ rq[r].err.status = 0)

\* one request was abandoned at its timeout while its body was being read,
\* another was rejected with its status
C27_Witness ==
  \E r, q \in Requests :
    /\ rq[r].pc = "aborted" /\ rq[r].status = 200 /\ rq[r].err = TimeoutErr
    /\ rq[q].pc = "rejected" /\ rq[q].err.status = 422

\* C28: the contact a forward of sender s holds has the identifier
\* telegram_<s>; every source tag the inbound side wrote is the identifier of
\* the conversation's contact, starts with telegram_, and the Outbound
\* Forwarder's stripping of it yields a sender's id; stripping the tag of the
\* conversation a forward of sender s resolved yields exactly s.
C28_KeyRoundTrips ==
  /\ \A i \in 1..Len(convs) :
       convs[i].source_id # NoStr =>
         /\ convs[i].source_id = contacts[convs[i].contact].identifier
         /\ convs[i].attr = convs[i].source_id
         /\ StartsWithTelegram(convs[i].source_id)
         /\ \E s \in Senders : TelegramIdOf(convs[i].source_id) = SenderIdStr(s)
  /\ \A h \in Handlers :
       /\ hs[h].contactId # 0 =>
            contacts[hs[h].contactId].identifier = IdentityKey(hs[h].sender)
       /\ (hs[h].conv # 0 /\ convs[hs[h].conv].source_id # NoStr) =>
            /\ StartsWithTelegram(convs[hs[h].conv].source_id)
            /\ TelegramIdOf(convs[hs[h].conv].source_id) = SenderIdStr(hs[h].sender)

\* forwards of two different senders ended, each with a tagged conversation
\* of its own
C28_Witness ==
  \E g, h \in Handlers :
    /\ hs[g].pc = "done" /\ hs[h].pc = "done" /\ hs[g].sender # hs[h].sender
    /\ hs[g].conv # 0 /\ hs[h].conv # 0 /\ hs[g].conv # hs[h].conv
    /\ convs[hs[g].conv].source_id = IdentityKey(hs[g].sender)
    /\ convs[hs[h].conv].source_id = IdentityKey(hs[h].sender)

\* the rows of the ledger a consumer is replaying
Replaying(c) == consumers[c].pc = "replaying"

\* C29: Failure Records are consumed first in, first out: each call of
\* fetchNextFailedMessage that returns a record returns the oldest record
\* still in the ledger, and never one that deleteFailedMessage has deleted.
C29_OldestFirst ==
  [][\A c \in Consumers :
       (~Replaying(c) /\ Replaying(c)') =>
         /\ consumers'[c].row = Head(ledger)
         /\ \A d \in Consumers : consumers'[c].row.id \notin consumers[d].deleted]_vars

\* C29: a consumer replays the older of two records written in the same
\* millisecond, after an earlier record was replayed and deleted
C29_Witness ==
  \E c \in Consumers :
    /\ Replaying(c)
    /\ Len(ledger) >= 2
    /\ consumers[c].row = ledger[1]
    /\ ledger[1].created_at = ledger[2].created_at
    /\ \E d \in Consumers : consumers[d].deleted # {}

\* C30: under concurrent consumers no Failure Record is handed to two
\* replays at the same time.
C30_OneReplayPerRecord ==
  \A c, d \in Consumers :
    (c # d /\ Replaying(c) /\ Replaying(d)) => consumers[c].row.id # consumers[d].row.id

\* C31: with the ignore-groups flag set, a message that came from a group or
\* a channel is never forwarded: its handler ends at once, holds no contact
\* and no conversation, has sent no creation request and can take no step,
\* so no contact, conversation or message request is sent for it.
C31_GroupsIgnored ==
  \A h \in Handlers :
    (env.CHATWOOT_IGNORE_GROUP = <<"true">> /\ hs[h].origin \in {"group", "channel"}) =>
      /\ hs[h].pc = "skipped"
      /\ hs[h].contactId = 0 /\ hs[h].conv = 0 /\ hs[h].nCreate = 0
      /\ hs[h].sender = 0 /\ hs[h].text = NoStr

\* C31: with the flag set a channel message was skipped and a private message
\* of the same run was forwarded
C31_Witness ==
  /\ env.CHATWOOT_IGNORE_GROUP = <<"true">>
  /\ \E h, g \in Handlers :
       /\ hs[h].origin = "channel" /\ hs[h].pc = "skipped"
       /\ hs[g].origin = "private" /\ hs[g].pc = "done"
  /\ Len(msgs) = 1

\* a handler run suspended in a remote call
Suspended(h) ==
  hs[h].pc \in {"contactPost", "contactSearch", "contactUpdate", "listInbox", "create",
                "search", "deep", "deepDetail", "message"}

\* C32: handlers of unrelated messages progress independently: while the
\* calls made for one sender stay unanswered, the transport still delivers
\* the other messages, every inbound handler of another sender runs to its
\* end and posts its message, and every webhook run about another sender's
\* conversation runs to its end and sends its message.
C32_IndependentProgress ==
  /\ <>(arrived = MaxMsgs)
  /\ \A h \in Handlers :
       (hs[h].sender \notin {0, SlowSender}) ~>
         (hs[h].pc = "done" /\ \E m \in 1..Len(msgs) : msgs[m].conversation = hs[h].conv)
  /\ \A k \in Hooks :
       (wh[k].pc \in {"fetch", "send"} /\ SenderOfHook(k) # IdentityKey(SlowSender)) ~>
         (wh[k].pc = "done" /\ wh[k].nSend = 1)

\* C32: an inbound handler and a webhook run of another sender have ended
\* and delivered while an inbound handler and a webhook run of the slow
\* sender are suspended in a remote call
C32_Witness ==
  /\ \E h, g \in Handlers :
       /\ hs[h].sender = SlowSender /\ Suspended(h)
       /\ hs[g].sender \notin {0, SlowSender} /\ hs[g].pc = "done"
       /\ \E m \in 1..Len(msgs) : msgs[m].conversation = hs[g].conv
  /\ \E k, j \in Hooks :
       /\ wh[k].pc \in {"fetch", "send"} /\ SenderOfHook(k) = IdentityKey(SlowSender)
       /\ wh[j].pc = "done" /\ wh[j].nSend = 1
       /\ SenderOfHook(j) \notin {NoStr, IdentityKey(SlowSender)}

\* C33: the Resolver's steps run in a fixed order: a handler comes to the
\* tagged creation only from an inbox listing that returned no conversation,
\* to the search without inbox filter only from a creation that was rejected
\* with a source-tag conflict, and to the creation without source tag only
\* after the list search, the detail scan and the contact-filtered search
\* all ran to their end without a match.
C33_FixedOrder ==
  [][\A h \in Handlers :
       /\ (hs[h].pc # "create" /\ hs'[h].pc = "create") =>
            (hs[h].pc = "listInbox" /\ hs'[h].conv = 0)
       /\ (hs[h].pc # "search" /\ hs'[h].pc = "search") =>
            (hs[h].pc = "create" /\ hs'[h].createErr = SourceConflict)
       /\ (hs[h].pc # "fallback" /\ hs'[h].pc = "fallback") =>
            hs'[h].missed = 3]_vars

\* the phases of createConversation that follow a rejected creation
SearchPhases == {"search", "deep", "deepDetail", "byContact", "byContactDetail", "fallback"}

\* C34: only a creation rejected with status 422 and error data naming
\* source_id starts the fallback search; a conversation that search returns
\* carries exactly the sender's source tag; after any other creation failure
\* the call has failed with that very error, with one creation request sent,
\* no search phase run and no conversation.
C34_OnlyTagConflictSearches ==
  \A h \in Handlers :
    /\ (hs[h].pc \in SearchPhases \/ hs[h].path \in {"searched", "deep", "byContact",
                                                       "byContactDetail", "fallback"}) =>
         (hs[h].createErr.status = 422 /\ hs[h].createErr.about = "source_id")
    /\ hs[h].path \in {"searched", "deep", "byContact", "byContactDetail"} =>
         IdentityKey(hs[h].sender) \in {convs[hs[h].conv].source_id, convs[hs[h].conv].attr}
    /\ (hs[h].createErr # NoErr
          /\ ~(hs[h].createErr.status = 422 /\ hs[h].createErr.about = "source_id")) =>
         /\ hs[h].pc = "failed" /\ hs[h].err = hs[h].createErr
         /\ hs[h].nCreate = 1 /\ hs[h].missed = 0 /\ hs[h].conv = 0

\* C34: a creation was rejected with a 422 about another field and its call
\* failed at once with that error, while the other forward created its
\* conversation
C34_Witness ==
  \E h, g \in Handlers :
    /\ hs[h].createErr = RejectedErr(422, "inbox_id")
    /\ hs[h].pc = "failed" /\ hs[h].err = RejectedErr(422, "inbox_id") /\ hs[h].nCreate = 1
    /\ hs[g].path = "created"

\* C34: a creation was rejected with the source-tag conflict and the search
\* it started returned the conversation that carries the tag
C34_SearchWitness ==
  \E g \in Handlers :
    /\ hs[g].createErr = SourceConflict
    /\ hs[g].path \in {"searched", "deep", "byContact", "byContactDetail"}
    /\ convs[hs[g].conv].source_id = IdentityKey(hs[g].sender)

\* the phases of createConversation, each suspended in a remote call
ResolverPhases ==
  {"listInbox", "create", "search", "deep", "deepDetail", "byContact", "byContactDetail",
   "fallback"}

\* an upper bound of the remote calls a createConversation call in state rec
\* can still make: the creation without source tag counts 1, a detail of the
\* contact-filtered search 1 each and its list request one more than a full
\* answer, a page of the detail scan one more than its details, and so on up
\* to the pages left of the inbox listing
CallsLeft(rec) ==
  LET perPage == PageSize + 2
      byContactTop == PageSize + 3
      deepTop == byContactTop + MaxPages * perPage + 1
      searchTop == deepTop + MaxPages + 1
      createTop == searchTop + 1
      pagesLeft == MaxPages - rec.page + 1
  IN CASE rec.pc = "fallback" -> 1
       [] rec.pc = "byContactDetail" -> 1 + Len(rec.queue)
       [] rec.pc = "byContact" -> byContactTop
       [] rec.pc = "deepDetail" -> byContactTop + (pagesLeft - 1) * perPage + Len(rec.queue)
       [] rec.pc = "deep" -> byContactTop + pagesLeft * perPage
       [] rec.pc = "search" -> deepTop + pagesLeft
       [] rec.pc = "create" -> createTop
       [] rec.pc = "listInbox" -> createTop + pagesLeft
       [] OTHER -> 0

\* the ids the remote lists on the pages before `page` of the scan without
\* inbox filter
ListedBefore(page) ==
  UNION { {RemoteList(0, 0, ListStatus, q).items[k].id :
             k \in 1..Len(RemoteList(0, 0, ListStatus, q).items)} : q \in 1..(page - 1) }

\* C35: every createConversation call ends after a bounded number of remote
\* calls: each remote call of the call lowers the count of calls it can still
\* make, a paginated scan never asks for a page beyond the fifth and leaves the
\* scan at an empty page, the detail scan never fetches a conversation that an
\* earlier page of the same scan listed, and at most two creation requests
\* are sent.
C35_BoundedCalls ==
  [][\A h \in Handlers :
       (hs[h].pc \in ResolverPhases /\ hs'[h] # hs[h]) =>
         /\ CallsLeft(hs'[h]) < CallsLeft(hs[h])
         /\ hs[h].page <= MaxPages /\ hs'[h].page <= MaxPages
         /\ hs'[h].nCreate <= 2
         /\ Len(hs'[h].queue) <= PageSize
         /\ (hs[h].pc \in {"search", "deep"}
               /\ RemoteList(0, 0, ListStatus, hs[h].page).items = <<>>) =>
              hs'[h].pc # hs[h].pc
         /\ (hs[h].pc = "listInbox"
               /\ RemoteList(InboxId, 0, ListStatus, hs[h].page).items = <<>>) =>
              hs'[h].pc # hs[h].pc
         /\ hs[h].pc = "deepDetail" => Head(hs[h].queue) \notin ListedBefore(hs[h].page)]_vars

\* C35: a call has gone through every phase: its inbox listing and its list
\* search ran their five pages, the detail scan and the contact-filtered
\* search found nothing, and its second creation request was answered
C35_Witness ==
  \E h \in Handlers :
    /\ hs[h].path = "fallback" /\ hs[h].nCreate = 2 /\ hs[h].missed = 3
    /\ hs[h].pc \in {"message", "done"}

\* the conversations of a handler's contact in the inbox, the matches of the
\* inbox listing
MatchesOf(h) == ConvsOfContact(hs[h].contactId, InboxId)

\* C36: the tie-break is deterministic: when the remote holds two
\* conversations of the sender, every call of the Resolver that returns
\* returns the first of them in list order, and two calls return the same
\* conversation.
C36_FirstMatchWins ==
  \A h \in Handlers :
    (hs[h].conv # 0 /\ hs[h].snap.existing # 0) =>
      /\ hs[h].conv = hs[h].snap.existing
      /\ \A g \in Handlers :
           (hs[g].conv # 0 /\ hs[g].sender = hs[h].sender) => hs[g].conv = hs[h].conv

\* C36: the same as long as at most one remote call has failed
C36_FirstMatchWinsOneFault == faults <= 1 => C36_FirstMatchWins

\* C37: in an inbound forward the message is posted only after a contact id
\* and a conversation id were both obtained, and always with direction
\* "incoming": the message post is requested only by a handler that holds
\* both ids, every message on the remote is the incoming post of such a
\* handler into its conversation, a forward whose contact or conversation
\* resolution failed has requested no post, and an answer without id makes
\* the forward fail instead of posting.
C37_PostAfterBothIds ==
  [][/\ \A h \in Handlers :
          /\ hs'[h].pc = "message" => (hs'[h].contactId # 0 /\ hs'[h].conv # 0)
          /\ (hs[h].pc \notin {"message", "done", "failed"} /\ hs'[h].pc \in {"done", "failed"}) =>
               (hs'[h].pc = "failed" /\ hs'[h].conv = 0 /\ msgs' = msgs)
          /\ AfterContact(hs[h], 0, NoStr, NoStr).pc = "failed"
          /\ ConvReturn(hs[h], 0, "created").pc = "failed"
     /\ msgs' # msgs =>
          \E h \in Handlers :
            /\ hs[h].pc = "message" /\ hs'[h].pc = "done"
            /\ hs[h].contactId # 0 /\ hs[h].conv # 0
            /\ msgs' = Append(msgs, [conversation |-> hs[h].conv, message_type |-> "incoming",
                                      content |-> hs[h].text])]_vars

\* C37: one forward posted its message into its conversation, another failed
\* in its conversation resolution and the remote holds the one message
C37_Witness ==
  \E h, g \in Handlers :
    /\ hs[h].pc = "done" /\ hs[h].contactId # 0 /\ hs[h].conv # 0
    /\ hs[g].pc = "failed" /\ hs[g].contactId # 0 /\ hs[g].conv = 0
    /\ Len(msgs) = 1 /\ msgs[1].conversation = hs[h].conv /\ msgs[1].message_type = "incoming"

\* C38: a failed contact-update request does not abort the inbound forward:
\* whether the update request is answered or fails, the forward goes on to
\* conversation resolution with its contact id and without error; after a
\* failed update the stored contact is unchanged.
C38_UpdateFailureTolerated ==
  [][\A h \in Handlers :
       (hs[h].pc = "contactUpdate" /\ hs'[h] # hs[h]) =>
         /\ hs'[h].pc = "listInbox" /\ hs'[h].err = NoErr
         /\ hs'[h].contactId = hs[h].contactId /\ hs'[h].snap.entered
         /\ faults' # faults => contacts' = contacts]_vars

\* C38: a forward whose only failed call was the contact update (the stored
\* name still differs from the live one) resolved its conversation and
\* posted its message
C38_Witness ==
  /\ faults = 1
  /\ \A g \in Handlers : hs[g].pc = "done" /\ ~hs[g].listErr /\ hs[g].lookupFaults = 0
                            /\ hs[g].path \in {"created", "found"}
  /\ \E h \in Handlers :
       /\ hs[h].upd.name # NoStr
       /\ contacts[hs[h].contactId].name # hs[h].upd.name
       /\ \E m \in 1..Len(msgs) : msgs[m].conversation = hs[h].conv
  /\ Len(msgs) = MaxMsgs

\* the ids of the rows in the ledger
LedgerIds == {ledger[i].id : i \in 1..Len(ledger)}

====
